---- MODULE Spec2Model ----
(***************************************************************************)
(* Verification model of the VoiceMate ingestion pipeline                  *)
(* (src/src/file_parser, src/src/utils).  Each component is a group of     *)
(* variables with its own initial condition and actions; one specification *)
(* per component runs that component while the others stay idle.           *)
(***************************************************************************)
EXTENDS Integers, Sequences, FiniteSets, TLC

VARIABLES
    \* ---- PDFContentFormatter (pdf_content_formatter.py) ----
    doc,                 \* the fitz.Document handed to create_structured_content:
                         \* one text-read outcome per page
    images,              \* self.images: the image records given at construction
    structured_content,  \* self.structured_content
    builds,              \* number of create_structured_content calls made
    fmt_metadata,        \* self.metadata is a non-empty record
    fmt_tables,          \* self.tables: the table records given at construction
    llm_content,         \* the blocks get_content_for_llm joined, in order
    llm_result,          \* "none" before the call, then "returned" or the
                         \* exception that left it
    \* ---- PDFTableParser (extract_tables.py) ----
    tables,              \* what camelot.read_pdf returns for self.pdf_path
    read_ok,             \* FALSE: camelot.read_pdf raises
    extracted_tables,    \* the list returned by the last extract_tables call
    table_calls,         \* number of extract_tables calls made
    \* ---- PDFImageExtractor (pdf_image_extractor.py) ----
    describe_images,     \* self.describe_images
    image_describer,     \* self.image_describer: "None", or an ImageDescriber
                         \* whose is_available is TRUE ("available") or FALSE
    img_doc,             \* the fitz.Document handed to extract_images
    images_data,         \* the list returned by extract_images
    image_files,         \* the (page, index) of the image files written
    describe_log,        \* the describer calls made, in order
    img_result,          \* "none" before the call, then "returned" or "raised"
    \* ---- FileConverter (other_files_parser.py) ----
    conv_input,          \* self.file_path and what the environment does with it
    conv_op,             \* the method called on the converter ("none" before)
    conv_trace,          \* the calls the method made, in order
    conv_result,         \* what the call gave back: a value or an exception
    conv_file,           \* the file at the output path the converter chose:
                         \* "absent", "partial" or "complete"
    \* ---- FileConverter.convert_url_to_pdf and url2pdf.py ----
    url_valid,           \* is_valid_url(self.file_path)
    name_taken,          \* <domain>.pdf already exists in the output directory
    url_pc,              \* where convert_url_to_pdf stands
    probe,               \* the probe: "none", "answered" or "RequestException"
    status,              \* response.status_code (0 without a response)
    url_trace,           \* validation, probe and render, as they start
    url_result,          \* what convert_url_to_pdf gave back
    output_path,         \* the path handed to the render
    pdf_visible,         \* os.path.exists(output_path)
    child_pc,            \* the url2pdf.py process: "none", "exec" (inside
                         \* loop.exec_), "quit" (the loop was told to quit),
                         \* "returned" or "exited" (SystemExit)
    page_phase,          \* "loading", "printing" or "done"
    app,                 \* the QApplication: "none", "live" or "released"
    web_view,            \* the QWebEngineView
    web_page,            \* web_view.page()
    timer,               \* the single-shot QTimer ("fired" once it timed out)
    exit_code,           \* the process's exit code: "none" while it runs,
                         \* then "0" or "1"
    \* ---- conversions sharing an output directory and a base name ----
    files,               \* the file names present in the output directory
    now,                 \* int(time.time())
    name_pc,             \* per conversion: "start", "named" or "written"
    name_path,           \* per conversion: the path _generate_unique_filename gave
    \* ---- PdfParser (pdf_parser.py) ----
    parser_env,          \* what os.stat, fitz.open, doc.metadata and pdfminer do
                         \* for self.file_path
    metadata,            \* the record extract_metadata returned, as <<key, value>> pairs
    text,                \* what extract_text returned
    parser_calls,        \* the methods called so far
    parser_trace,        \* the library calls made, in order
    parser_exc,          \* the exception that left a method ("none" if none did)
    parse_result,        \* what parse_all returned
    \* ---- TextCleaner (text_cleaner.py) ----
    cleaner_values,      \* the text given first, then the text after each call
    cleaner_ops,         \* the TextCleaner methods called, in order
    \* ---- FileConverter.convert_pptx_to_pdf ----
    pptx_env,            \* what Presentation(file_path) and c.save() do
    slides,              \* prs.slides: per slide the sequence of its shapes
    pdf_pages,           \* the pages of the saved PDF, each the strings drawn on it
    pptx_result,         \* "none", then "returned" or the exception raised
    \* ---- the wizard (app.py, ui/steps, workflow/session.py) ----
    session,             \* st.session_state
    safety_passed,       \* the contents check_content_safety returned True for
    plan_calls,          \* the contents generate_plan_content was called with
    last_action,         \* the button handled last and what its calls gave
    \* ---- the session-logger registry (utils/logging_config.py) ----
    loggers,             \* the keys of _loggers, in insertion order
    handlers,            \* per request id: its logger has open handlers
    closed_by,           \* per request id: the call that closed its handlers last
    held,                \* the request ids whose logger a running ingestion holds
    last_call            \* the registry call made last, what it found and removed

fmtVars == <<doc, images, structured_content, builds, fmt_metadata, fmt_tables, llm_content,
             llm_result>>
tabVars == <<tables, read_ok, extracted_tables, table_calls>>
imgVars == <<describe_images, image_describer, img_doc, images_data, image_files,
             describe_log, img_result>>

cvVars == <<conv_input, conv_op, conv_trace, conv_result, conv_file>>

urlVars == <<url_valid, name_taken, url_pc, probe, status, url_trace, url_result, output_path,
             pdf_visible>>
childVars == <<child_pc, page_phase, app, web_view, web_page, timer, exit_code>>

nameVars == <<files, now, name_pc, name_path>>

parserVars == <<parser_env, metadata, text, parser_calls, parser_trace, parser_exc,
                parse_result>>

cleanerVars == <<cleaner_values, cleaner_ops>>

pptxVars == <<pptx_env, slides, pdf_pages, pptx_result>>

wizVars == <<session, safety_passed, plan_calls, last_action>>

logVars == <<loggers, handlers, closed_by, held, last_call>>

vars == <<fmtVars, tabVars, imgVars, cvVars, urlVars, childVars, nameVars, parserVars, cleanerVars, pptxVars, wizVars, logVars>>

(***************************************************************************)
(* Bounds of the model.                                                    *)
(***************************************************************************)
MaxPages == 3
MaxBuilds == 2
MaxFmtImages == 1
MaxFmtTables == 1
MaxTables == 2
MaxTableCalls == 2
MaxTabPages == 2
MaxImgPages == 2
MaxImgs == 2
MaxConversions == 3
MaxClock == 2
MaxTextLen == 4
MaxCleanerCalls == 2
MaxSlides == 2
MaxShapes == 3
max_loggers == 2
MaxIngestions == 1

RECURSIVE SeqsUpTo(_, _)
\* All sequences over S of length 0..n.
SeqsUpTo(S, n) ==
    IF n = 0 THEN {<<>>}
    ELSE LET shorter == SeqsUpTo(S, n - 1)
         IN  shorter \cup {Append(s, x) : s \in {t \in shorter : Len(t) = n - 1}, x \in S}

\* Python's exception classes as they matter to the except clauses: the
\* classes exception e is an instance of.  "Other" stands for any exception
\* of a library that is none of OSError, ValueError, RuntimeError
\* (pptx.exc.PackageNotFoundError, PIL's DecompressionBombError, KeyError).
ClassesOf(e) ==
    CASE e = "FileNotFoundError" -> {"FileNotFoundError", "OSError", "Exception"}
      [] e = "OSError" -> {"OSError", "Exception"}
      [] e = "ValueError" -> {"ValueError", "Exception"}
      [] e = "RuntimeError" -> {"RuntimeError", "Exception"}
      [] e = "FileDataError" -> {"FileDataError", "RuntimeError", "Exception"}
      [] e = "Exception" -> {"Exception"}
      [] OTHER -> {e, "Exception"}

\* An except clause naming the classes of handler catches exception e.
Catches(handler, e) == ClassesOf(e) \cap handler # {}

(***************************************************************************)
(* PDFContentFormatter.create_structured_content                           *)
(***************************************************************************)
\* What doc.load_page(n) / page.get_text() does for one page: returns text,
\* returns the empty string, raises RuntimeError (caught per page, line 58),
\* or raises OSError/ValueError (caught only by the outer handler, line 72).
\* Text comes in the kinds that matter later: blank (white space only),
\* text the cleaner cleans, and text on which the cleaner raises ValueError
\* or an exception of another class (TypeError, re.error).
PageReads ==
    {"text", "empty", "blank", "text:ValueError", "text:TypeError", "RuntimeError",
     "ValueError"}

\* page_content["text"] after the inner try/except of lines 55-64.
PageText(read) ==
    CASE read = "text" -> "T"
      [] read = "blank" -> " "
      [] read = "text:ValueError" -> "V"
      [] read = "text:TypeError" -> "X"
      [] OTHER -> ""

\* The images of self.images whose page is n (lines 66-68), in list order.
PageImages(imgs, n) == SelectSeq(imgs, LAMBDA im : im.page = n)

RECURSIVE BuildPages(_, _, _, _)
\* The for loop of lines 48-70 from page index k on: every page appends one
\* page_content to acc; a read raising OSError/ValueError leaves the loop
\* (outer handler) with what was appended so far.
BuildPages(d, imgs, k, acc) ==
    IF k > Len(d) THEN acc
    ELSE IF d[k] = "ValueError" THEN acc
    ELSE BuildPages(d, imgs, k + 1,
             Append(acc, [page |-> k, text |-> PageText(d[k]),
                          images |-> PageImages(imgs, k)]))

\* The list the loop starts from: self.structured_content is only replaced
\* when it is not a list (lines 45-46), so earlier entries are kept.
BuildStart(sc) == sc

CreateStructuredContent ==
    /\ builds < MaxBuilds
    /\ llm_result = "none"
    /\ structured_content' = BuildPages(doc, images, 1, BuildStart(structured_content))
    /\ builds' = builds + 1
    /\ UNCHANGED <<doc, images, fmt_metadata, fmt_tables, llm_content, llm_result>>
    /\ UNCHANGED <<tabVars, imgVars, cvVars, urlVars, childVars, nameVars, parserVars, cleanerVars, pptxVars, wizVars, logVars>>

\* page["text"].strip() is empty (line 108).
IsBlank(t) == t \in {"", " "}

\* TextCleaner(text).clean_text() for the texts of the model.
CleanText(t) ==
    CASE t = "V" -> [exc |-> "ValueError", text |-> ""]
      [] t = "X" -> [exc |-> "TypeError", text |-> ""]
      [] OTHER -> [exc |-> "none", text |-> "cleaned " \o t]

CleanHandlerM == {"OSError", "ValueError", "Exception"}
\* The exceptions the handler of line 112 catches.
CleanHandler == {"OSError", "ValueError"}

\* The text section of a page block (lines 108-118): none for blank text,
\* the cleaned text, or the raw text when the cleaner raised an exception
\* the handler catches; exc is the exception the handler lets through.
TextSection(t) ==
    IF IsBlank(t) THEN [exc |-> "none", section |-> "none", text |-> ""]
    ELSE IF CleanText(t).exc = "none"
    THEN [exc |-> "none", section |-> "DANE TEKSTOWE", text |-> CleanText(t).text]
    ELSE IF Catches(CleanHandler, CleanText(t).exc)
    THEN [exc |-> "none", section |-> "DANE TEKSTOWE", text |-> t]
    ELSE [exc |-> CleanText(t).exc, section |-> "none", text |-> ""]

\* The tables of self.tables on page n (lines 130-133).
PageTables(tbls, n) == SelectSeq(tbls, LAMBDA tb : tb.page = n)

\* The block of lines 106-139 for one entry of structured_content.
PageBlock(pc, tbls) ==
    [block |-> "STRONA", page |-> pc.page,
     text |-> [section |-> TextSection(pc.text).section, text |-> TextSection(pc.text).text],
     images |-> pc.images,
     tables |-> PageTables(tbls, pc.page)]

\* The header block of lines 92-103.
MetadataBlock ==
    [block |-> "METADANE DOKUMENTU", page |-> 0,
     text |-> [section |-> "none", text |-> ""], images |-> <<>>, tables |-> <<>>]

RECURSIVE FormatPages(_, _, _, _)
\* The loop of lines 105-139 from entry k on; a cleaner exception that the
\* handler does not catch ends the call.
FormatPages(sc, tbls, k, acc) ==
    IF k > Len(sc) THEN [blocks |-> acc, exc |-> "none"]
    ELSE IF TextSection(sc[k].text).exc # "none"
    THEN [blocks |-> <<>>, exc |-> TextSection(sc[k].text).exc]
    ELSE FormatPages(sc, tbls, k + 1, Append(acc, PageBlock(sc[k], tbls)))

\* get_content_for_llm (lines 80-141).
GetContentForLlmOf(sc, md, tbls) ==
    IF sc = <<>> THEN [blocks |-> <<>>, exc |-> "none"]
    ELSE FormatPages(sc, tbls, 1, IF md THEN <<MetadataBlock>> ELSE <<>>)

GetContentForLlm ==
    /\ llm_result = "none"
    /\ LET r == GetContentForLlmOf(structured_content, fmt_metadata, fmt_tables)
       IN  /\ llm_content' = r.blocks
           /\ llm_result' = IF r.exc = "none" THEN "returned" ELSE r.exc
    /\ UNCHANGED <<doc, images, structured_content, builds, fmt_metadata, fmt_tables>>
    /\ UNCHANGED <<tabVars, imgVars, cvVars, urlVars, childVars, nameVars, parserVars, cleanerVars, pptxVars, wizVars, logVars>>

FmtNext == CreateStructuredContent \/ GetContentForLlm

FmtInit ==
    /\ doc \in SeqsUpTo(PageReads, MaxPages)
    /\ images \in SeqsUpTo({[page |-> p] : p \in 1..2}, MaxFmtImages)
    /\ structured_content = <<>>
    /\ builds = 0
    /\ fmt_metadata \in BOOLEAN
    /\ fmt_tables \in SeqsUpTo({[page |-> p] : p \in 1..2}, MaxFmtTables)
    /\ llm_content = <<>>
    /\ llm_result = "none"

FmtIdle ==
    /\ doc = <<>>
    /\ images = <<>>
    /\ structured_content = <<>>
    /\ builds = 0
    /\ fmt_metadata = FALSE
    /\ fmt_tables = <<>>
    /\ llm_content = <<>>
    /\ llm_result = "none"

(***************************************************************************)
(* PDFTableParser.extract_tables                                           *)
(***************************************************************************)
\* A detected table as extract_tables sees it after _clean_table_dataframe:
\* the detector's accuracy, the cleaned frame's shape and the number of its
\* cells whose stripped string is not '' (what _calculate_content_ratio
\* counts).  Every row that survives cleaning holds such a cell.  has_page
\* and page are the 'page' entry of table.parsing_report: whether there is
\* one and, if so, the page of the MaxTabPages-page document it names.
Accuracies == {10, 40, 41}
Shapes == {<<0, 0>>, <<1, 20>>, <<2, 1>>, <<2, 20>>}
Fills == {0, 2, 4, 8}
TableKinds ==
    {t \in [accuracy : Accuracies, shape : Shapes, filled : Fills,
            has_page : BOOLEAN, page : 1..MaxTabPages] :
        /\ t.filled >= t.shape[1]
        /\ t.filled <= t.shape[1] * t.shape[2]
        /\ (t.shape[1] = 0) = (t.filled = 0)
        /\ ~t.has_page => t.page = 1
        \* the report's page varies on one table shape only
        /\ (~t.has_page \/ t.page # 1) =>
              (t.accuracy = 41 /\ t.shape = <<2, 20>> /\ t.filled = 2)}

\* table.parsing_report.get('page', 'unknown') (line 62): the page number,
\* or the string 'unknown', which is no integer.
ReportPage(t) ==
    IF t.has_page THEN [is_int |-> TRUE, value |-> t.page, str |-> ""]
    ELSE [is_int |-> FALSE, value |-> 0, str |-> "unknown"]

\* df.empty or df.shape[0] < 2 or df.shape[1] < 2 (line 54).
TooSmall(t) == t.shape[1] * t.shape[2] = 0 \/ t.shape[1] < 2 \/ t.shape[2] < 2

\* _calculate_content_ratio(df) > 0.1, with the ratio non_empty / total kept
\* as a fraction: filled / cells > 1/10.
ContentRatioAbove(t) == 10 * t.filled > t.shape[1] * t.shape[2]

\* accuracy > 40 (line 59).
AccuracyAbove(t) == t.accuracy > 40

AcceptsAndM(t) == ~TooSmall(t) /\ ContentRatioAbove(t) /\ AccuracyAbove(t)
\* The decision of lines 54-59 for one table.
Accepts(t) == ~TooSmall(t) /\ (ContentRatioAbove(t) \/ AccuracyAbove(t))

\* table_data of lines 60-71; table_id is the enumerate index i (0-based).
TableData(i, t) ==
    [table_id |-> i, page |-> ReportPage(t), accuracy |-> t.accuracy,
     content_ratio |-> <<t.filled, t.shape[1] * t.shape[2]>>, shape |-> t.shape]

RECURSIVE ExtractLoop(_, _, _)
\* The for loop of lines 48-72 from list position k on.
ExtractLoop(ts, k, acc) ==
    IF k > Len(ts) THEN acc
    ELSE ExtractLoop(ts, k + 1,
             IF Accepts(ts[k]) THEN Append(acc, TableData(k - 1, ts[k])) ELSE acc)

\* extract_tables: the loop, or [] when read_pdf raises (lines 76-80).
ExtractTables ==
    /\ table_calls < MaxTableCalls
    /\ extracted_tables' = IF read_ok THEN ExtractLoop(tables, 1, <<>>) ELSE <<>>
    /\ table_calls' = table_calls + 1
    /\ UNCHANGED <<tables, read_ok>>
    /\ UNCHANGED <<fmtVars, imgVars, cvVars, urlVars, childVars, nameVars, parserVars, cleanerVars, pptxVars, wizVars, logVars>>

TabInit ==
    /\ tables \in SeqsUpTo(TableKinds, MaxTables)
    /\ read_ok \in BOOLEAN
    /\ extracted_tables = <<>>
    /\ table_calls = 0

TabIdle ==
    /\ tables = <<>>
    /\ read_ok = TRUE
    /\ extracted_tables = <<>>
    /\ table_calls = 0

(***************************************************************************)
(* PDFImageExtractor.extract_images and ImageDescriber                     *)
(***************************************************************************)
\* The sentinel and description strings that occur.
NoDescription == "No description available"
NotAvailable == "Image description not available"
FileNotFound == "Image description not available - file not found"
ErrorGenerating == "Error generating description: e"
ErrorDescribing == "Error generating description"
Description == "A description"
NonString == "<non-str content>"

\* One embedded image of a page, by what happens when it is processed:
\*   pix    fitz.Pixmap(doc, xref): "ok" or the exception raised
\*   width, height  pix.width and pix.height, in pixels
\*   write  open(img_path, 'wb') / file.write: "ok" or "OSError"
\*   path   what an available describer's describe_image(img_path) returns
\*   bytes  what an available describer's describe_image_from_bytes returns
Img(pix, width, height, write, path, bytes) ==
    [pix |-> pix, width |-> width, height |-> height, write |-> write,
     path |-> path, bytes |-> bytes]

\* The least width and height of an image that is kept (line 64).
MinImageSide == 50

TooSmallImageM(width, height) == width < MinImageSide /\ height < MinImageSide
\* The test of line 64: pix.width < 50 or pix.height < 50.
TooSmallImage(width, height) == width < MinImageSide \/ height < MinImageSide

ImageKinds ==
    {Img("RuntimeError", 50, 50, "ok", Description, Description),
     Img("ValueError", 50, 50, "ok", Description, Description),
     Img("ok", 49, 50, "ok", Description, Description),
     Img("ok", 50, 49, "ok", Description, Description),
     Img("ok", 50, 50, "OSError", Description, Description),
     Img("ok", 50, 50, "ok", Description, Description),
     Img("ok", 50, 50, "ok", NonString, Description),
     Img("ok", 50, 50, "ok", FileNotFound, Description),
     Img("ok", 50, 50, "ok", ErrorGenerating, Description),
     Img("ok", 50, 50, "ok", ErrorGenerating, ErrorGenerating)}

\* One page: what doc.load_page / page.get_images does, and the image list.
PageLoads == {"ok", "RuntimeError", "ValueError"}

\* The sequences over S of length exactly n.
SeqsOfLen(S, n) == {s \in SeqsUpTo(S, n) : Len(s) = n}

RECURSIVE ImgDocs(_, _, _)
\* The documents of at most p pages holding at most m images of K in all.
ImgDocs(K, p, m) ==
    IF p = 0 THEN {<<>>}
    ELSE {<<>>}
         \cup {<<[load |-> l, imgs |-> <<>>]>> \o rest :
                  l \in PageLoads \ {"ok"}, rest \in ImgDocs(K, p - 1, m)}
         \cup UNION {{<<[load |-> "ok", imgs |-> is]>> \o rest :
                          is \in SeqsOfLen(K, k), rest \in ImgDocs(K, p - 1, m - k)} :
                      k \in 0..m}

\* ImageDescriber.describe_image (image_describer.py lines 100-139): the
\* unavailable sentinel when setup failed, else the call's outcome.
DescribeImage(describer, im) ==
    IF describer # "available" THEN NotAvailable ELSE im.path

\* ImageDescriber.describe_image_from_bytes (lines 150-176).
DescribeImageFromBytes(describer, im) ==
    IF describer # "available" THEN NotAvailable ELSE im.bytes

\* description.startswith('Error') for the strings above.
StartsWithError(d) == d \in {ErrorGenerating, ErrorDescribing}

\* The guard of line 136: no describer is asked at all.
SkipsDescription(flag, describer) == ~flag \/ describer = "None"

\* The test of lines 146-149 that sends the image bytes after the path call.
NeedsBytesRetry(d) == StartsWithError(d) \/ d = NotAvailable

\* _get_image_description (lines 132-158): the description and the describer
\* calls made for the image at (page p, index i).
GetImageDescription(flag, describer, im, p, i) ==
    IF SkipsDescription(flag, describer)
    THEN [description |-> NoDescription, calls |-> <<>>]
    ELSE LET d == DescribeImage(describer, im)
             pathCall == <<[page |-> p, index |-> i, by |-> "path"]>>
         IN  IF d = NonString
             THEN \* description.startswith raises AttributeError (line 156)
                  [description |-> ErrorDescribing, calls |-> pathCall]
             ELSE IF NeedsBytesRetry(d)
             THEN [description |-> DescribeImageFromBytes(describer, im),
                   calls |-> pathCall \o <<[page |-> p, index |-> i, by |-> "bytes"]>>]
             ELSE [description |-> d, calls |-> pathCall]

ImageHandlerM == {"OSError", "ValueError"}
\* The exceptions the handlers around one image catch (lines 106 and 114).
ImageHandler == {"RuntimeError", "OSError", "ValueError"}
\* The exceptions the handler around the page loop catches (line 125).
OuterHandler == {"OSError", "ValueError"}

\* Lines 60-104 for one image: the exception that leaves the try block
\* ("none" when it runs to its end or to a continue), the record appended
\* (if any), the image files written and the describer calls.
ProcessImage(flag, describer, im, p, i) ==
    IF im.pix # "ok"
    THEN [exc |-> im.pix, rec |-> <<>>, files |-> {}, calls |-> <<>>]
    ELSE IF TooSmallImage(im.width, im.height)
    THEN [exc |-> "none", rec |-> <<>>, files |-> {}, calls |-> <<>>]
    ELSE IF im.write # "ok"
    THEN \* the inner handler of lines 78-83 catches OSError and continues
         [exc |-> "none", rec |-> <<>>, files |-> {}, calls |-> <<>>]
    ELSE LET g == GetImageDescription(flag, describer, im, p, i)
         IN  [exc |-> "none",
              rec |-> <<[page |-> p, index |-> i, width |-> im.width,
                         height |-> im.height, description |-> g.description]>>,
              files |-> {<<p, i>>},
              calls |-> g.calls]

RECURSIVE ImageLoop(_, _, _, _, _, _)
\* The loops of lines 47-121 from image i of page p on.  st is the state so
\* far: the records, the calls, and the exception that left the page loop.
ImageLoop(flag, describer, d, p, i, st) ==
    IF p > Len(d) THEN st
    ELSE IF i = 1 /\ d[p].load # "ok"
    THEN IF d[p].load = "RuntimeError"
         THEN ImageLoop(flag, describer, d, p + 1, 1, st)
         ELSE [st EXCEPT !.exc = d[p].load]
    ELSE IF i > Len(d[p].imgs) THEN ImageLoop(flag, describer, d, p + 1, 1, st)
    ELSE LET r == ProcessImage(flag, describer, d[p].imgs[i], p, i)
             next == [recs |-> st.recs \o r.rec, files |-> st.files \cup r.files,
                      calls |-> st.calls \o r.calls, exc |-> "none"]
         IN  IF r.exc = "none" \/ r.exc \in ImageHandler
             THEN ImageLoop(flag, describer, d, p, i + 1, next)
             ELSE [next EXCEPT !.exc = r.exc]

\* extract_images (lines 38-130): the whole call on img_doc.
ExtractImages ==
    /\ img_result = "none"
    /\ LET st == ImageLoop(describe_images, image_describer, img_doc, 1, 1,
                           [recs |-> <<>>, files |-> {}, calls |-> <<>>,
                            exc |-> "none"])
       IN  /\ images_data' = st.recs
           /\ image_files' = st.files
           /\ describe_log' = st.calls
           /\ img_result' = IF st.exc = "none" \/ st.exc \in OuterHandler
                            THEN "returned" ELSE "raised"
    /\ UNCHANGED <<describe_images, image_describer, img_doc>>
    /\ UNCHANGED <<fmtVars, tabVars, cvVars, urlVars, childVars, nameVars, parserVars, cleanerVars, pptxVars, wizVars, logVars>>

\* The describer outcomes of an image matter only when a describer is asked
\* and available; otherwise the images are drawn with the default outcome.
PlainImageKinds == {im \in ImageKinds : im.path = Description /\ im.bytes = Description}

ImgInit ==
    /\ describe_images \in BOOLEAN
    /\ image_describer \in {"None", "available", "unavailable"}
    /\ img_doc \in IF describe_images /\ image_describer = "available"
                   THEN ImgDocs(ImageKinds, MaxImgPages, MaxImgs)
                   ELSE ImgDocs(PlainImageKinds, MaxImgPages, MaxImgs)
    /\ images_data = <<>>
    /\ image_files = {}
    /\ describe_log = <<>>
    /\ img_result = "none"

ImgIdle ==
    /\ describe_images = FALSE
    /\ image_describer = "None"
    /\ img_doc = <<>>
    /\ images_data = <<>>
    /\ image_files = {}
    /\ describe_log = <<>>
    /\ img_result = "none"

(***************************************************************************)
(* FileConverter: detection, dispatch, converters, initiate_parser         *)
(***************************************************************************)
\* The result of a call: a returned value or a raised exception.
Returned(v) == [kind |-> "returned", value |-> v, exc |-> "none", msg |-> "none"]
Raised(e, m) == [kind |-> "raised", value |-> "none", exc |-> e, msg |-> m]
NoResult == [kind |-> "none", value |-> "none", exc |-> "none", msg |-> "none"]

\* SUPPORTED_FORMATS (lines 32-38): the kind an extension is listed under.
KindOfExtension(ext) ==
    CASE ext \in {".jpg", ".jpeg", ".png", ".bmp", ".tiff", ".gif"} -> "images"
      [] ext \in {".html", ".htm"} -> "web"
      [] ext \in {".pptx"} -> "presentations"
      [] ext \in {".md", ".markdown"} -> "markdown"
      [] ext \in {".pdf"} -> "pdf"
      [] OTHER -> "none"

\* str.lower() on the extensions of the model.
Lower(ext) ==
    CASE ext = ".PNG" -> ".png"
      [] ext = ".HTML" -> ".html"
      [] OTHER -> ext

\* mimetypes.guess_type for the extensions of the model; it looks the
\* extension up as written and then lower-cased.
GuessType(ext) ==
    CASE Lower(ext) = ".webp" -> "image/webp"
      [] Lower(ext) = ".svg" -> "image/svg+xml"
      [] Lower(ext) = ".txt" -> "text/plain"
      [] Lower(ext) = ".png" -> "image/png"
      [] Lower(ext) = ".pdf" -> "application/pdf"
      [] Lower(ext) = ".html" -> "text/html"
      [] OTHER -> "None"

\* mime_type.startswith("image/") (line 96).
IsImageMime(mime) == mime \in {"image/webp", "image/svg+xml", "image/png"}

\* The kind lines 93-104 give for a guessed MIME type.
KindOfMime(mime) ==
    IF mime = "None" THEN "unknown"
    ELSE IF IsImageMime(mime) THEN "images"
    ELSE IF mime = "application/pdf" THEN "pdf"
    ELSE "unknown"

DetectFileTypeM(inp) ==
    IF ~inp.exists THEN Raised("FileNotFoundError", "File does not exist")
    ELSE IF KindOfExtension(inp.ext) # "none" THEN Returned(KindOfExtension(inp.ext))
    ELSE Returned(KindOfMime(GuessType(inp.ext)))
\* detect_file_type (lines 71-104).
DetectFileType(inp) ==
    IF ~inp.exists THEN Raised("FileNotFoundError", "File does not exist")
    ELSE IF KindOfExtension(Lower(inp.ext)) # "none"
    THEN Returned(KindOfExtension(Lower(inp.ext)))
    ELSE Returned(KindOfMime(GuessType(inp.ext)))

\* The exceptions a file converter wraps (lines 157, 306, 332, 379).
ConverterHandler == {"OSError", "ValueError"}

\* convert_image_to_pdf, convert_html_to_pdf, convert_markdown_to_pdf and
\* convert_pptx_to_pdf share one shape: the library runs inside a try whose
\* handler turns the exceptions it catches into RuntimeError
\* '<kind> conversion error', and any other exception leaves it unchanged.
ConvertFile(kind, inp) ==
    IF inp.lib = "ok" THEN Returned("output_path")
    ELSE IF Catches(ConverterHandler, inp.lib)
    THEN Raised("RuntimeError", kind \o " conversion error")
    ELSE Raised(inp.lib, "raw")

\* What convert_url_to_pdf (lines 208-280) can give back.
UrlResults ==
    {Returned("output_path"),
     Raised("ValueError", "Invalid URL"),
     Raised("Exception", "Connection error"),
     Raised("Exception", "Unavailable page"),
     Raised("Exception", "URL to PDF conversion error"),
     Raised("FileNotFoundError", "PDF not found after subprocess")}

IsValidUrlM(inp) == inp.scheme # "" /\ inp.netloc # "" /\ ~inp.exists
\* is_valid_url (lines 161-178): all([result.scheme, result.netloc]).
IsValidUrl(inp) == inp.scheme # "" /\ inp.netloc # ""

ConverterOfM(kind) ==
    CASE kind = "images" -> "Image"
      [] kind = "web" -> "Markdown"
      [] kind = "markdown" -> "Markdown"
      [] kind = "presentations" -> "PPTX"
      [] OTHER -> "none"
\* The converter method convert_to_pdf calls for a detected kind (lines
\* 401-414).
ConverterOf(kind) ==
    CASE kind = "images" -> "Image"
      [] kind = "web" -> "HTML"
      [] kind = "markdown" -> "Markdown"
      [] kind = "presentations" -> "PPTX"
      [] OTHER -> "none"

\* convert_to_pdf (lines 383-414): the result and the calls made.
ConvertToPdf(inp) ==
    IF IsValidUrl(inp)
    THEN [result |-> inp.url_result, trace |-> <<"is_valid_url", "convert_url_to_pdf">>]
    ELSE LET t == DetectFileType(inp)
             pre == <<"is_valid_url", "detect_file_type">>
         IN  IF t.kind = "raised" THEN [result |-> t, trace |-> pre]
             ELSE IF t.value = "pdf" THEN [result |-> Returned("file_path"), trace |-> pre]
             ELSE IF ConverterOf(t.value) # "none"
             THEN [result |-> ConvertFile(ConverterOf(t.value), inp),
                   trace |-> Append(pre, ConverterOf(t.value) \o " converter")]
             ELSE [result |-> Raised("ValueError", "Unsupported file type"), trace |-> pre]

\* PdfParser.initiate (pdf_parser.py lines 594-598) on the canonical path:
\* parse_all swallows every failure (lines 194-206, and the FileDataError
\* returns of lines 272-274 and 389-391), the two save_ methods raise
\* OSError when they cannot write, and get_content_for_llm falls back to
\* clean_data(), the empty string, when no structured content was built.
ParserInitiate(inp) ==
    IF inp.save # "ok" THEN Raised("OSError", "Failed to save summary report")
    ELSE IF inp.pdf # "ok" THEN Returned("")
    ELSE Returned("llm_content")

\* The parameters PdfParser.__init__ takes (pdf_parser.py lines 43-48) and
\* the keywords initiate_parser passes to it (lines 462-467).
PdfParserParameters == {"file_path", "output_dir", "describe_images"}
PdfParserKeywords == {"file_path", "output_dir", "describe_images", "request_id"}

\* The constructor call of lines 462-467: a keyword the constructor does
\* not take makes the call raise TypeError before the body runs.
ParserConstruct ==
    IF PdfParserKeywords \subseteq PdfParserParameters
    THEN Returned("pdf_parser_instance")
    ELSE Raised("TypeError", "unexpected keyword argument")

\* The exceptions initiate_parser wraps (line 475).
InitiateHandler == {"OSError", "ValueError", "RuntimeError"}

\* The file at the output path when a convert_ method ends.  The library
\* writes straight to output_path (img.save line 152, pdfkit lines 297-301
\* and 327, c.save line 374, printToPdf in url2pdf.py); the handlers of
\* lines 157-159, 306-308, 332-334, 379-381 and 278-280 log and raise and
\* remove nothing, so what the library left stays.
OutputFile(inp) ==
    LET r == ConvertToPdf(inp).result
        called == IF IsValidUrl(inp) THEN TRUE
                  ELSE /\ DetectFileType(inp).kind = "returned"
                       /\ ConverterOf(DetectFileType(inp).value) # "none"
    IN  IF ~called THEN "absent"
        ELSE IF r.kind = "returned" THEN "complete"
        ELSE IF IsValidUrl(inp) /\ r.msg # "URL to PDF conversion error" THEN "absent"
        ELSE inp.left

\* initiate_parser (lines 445-481).
InitiateParser(inp) ==
    LET c == ConvertToPdf(inp)
        r == IF c.result.kind = "raised" THEN c.result
             ELSE IF ParserConstruct.kind = "raised" THEN ParserConstruct
             ELSE ParserInitiate(inp)
        t == IF c.result.kind = "raised" THEN c.trace
             ELSE IF ParserConstruct.kind = "raised" THEN Append(c.trace, "PdfParser")
             ELSE c.trace \o <<"PdfParser", "initiate">>
    IN  [result |-> IF r.kind = "raised" /\ Catches(InitiateHandler, r.exc)
                    THEN Raised("RuntimeError", "Failed to parse file")
                    ELSE r,
         trace |-> Append(t, "cleanup")]

Extensions == {".png", ".PNG", ".html", ".HTML", ".pptx", ".md", ".pdf", ".webp", ".svg",
               ".txt", ""}

\* self.file_path by the features that decide the call, with what the
\* environment does during it:
\*   scheme      urlparse(file_path).scheme
\*   netloc      urlparse(file_path).netloc
\*   exists      os.path.exists(file_path)
\*   ext         os.path.splitext(file_path)[1], as written
\*   lib         what the conversion library does: "ok" or the exception
\*   url_result  what convert_url_to_pdf gives back for a URL
\*   left        what a failing library or render leaves at the output
\*               path: nothing ("absent") or an unfinished file ("partial")
\*   pdf         fitz.open of the canonical document: "ok" or "FileDataError"
\*   save        writing the report and metadata files: "ok" or "OSError"
ConvInputs ==
    {i \in [scheme : {"", "http"}, netloc : {"", "host"},
            exists : BOOLEAN, ext : Extensions,
            lib : {"ok", "OSError", "ValueError", "Other"},
            url_result : UrlResults, left : {"absent", "partial"},
            pdf : {"ok", "FileDataError"}, save : {"ok", "OSError"}] :
        \* a URL names no local file; a local path has no URL outcome
        /\ (i.scheme # "" /\ i.netloc # "") => (i.ext = ".html" /\ i.lib = "ok")
        /\ ~(i.scheme # "" /\ i.netloc # "") => i.url_result = Returned("output_path")
        /\ i.url_result # Raised("ValueError", "Invalid URL")
        \* nothing is left behind unless the library or the render failed
        /\ (i.lib = "ok" /\ i.url_result.msg # "URL to PDF conversion error")
              => i.left = "absent"}

CallConvertToPdf ==
    /\ conv_op = "none"
    /\ conv_op' = "convert_to_pdf"
    /\ conv_result' = ConvertToPdf(conv_input).result
    /\ conv_trace' = ConvertToPdf(conv_input).trace
    /\ conv_file' = OutputFile(conv_input)
    /\ UNCHANGED conv_input
    /\ UNCHANGED <<fmtVars, tabVars, imgVars, urlVars, childVars, nameVars, parserVars, cleanerVars, pptxVars, wizVars, logVars>>

\* detect_file_type called on its own.
CallDetectFileType ==
    /\ conv_op = "none"
    /\ conv_op' = "detect_file_type"
    /\ conv_result' = DetectFileType(conv_input)
    /\ UNCHANGED <<conv_input, conv_trace, conv_file>>
    /\ UNCHANGED <<fmtVars, tabVars, imgVars, urlVars, childVars, nameVars, parserVars, cleanerVars, pptxVars, wizVars, logVars>>

CallInitiateParser ==
    /\ conv_op = "none"
    /\ conv_op' = "initiate_parser"
    /\ conv_result' = InitiateParser(conv_input).result
    /\ conv_trace' = InitiateParser(conv_input).trace
    /\ conv_file' = OutputFile(conv_input)
    /\ UNCHANGED conv_input
    /\ UNCHANGED <<fmtVars, tabVars, imgVars, urlVars, childVars, nameVars, parserVars, cleanerVars, pptxVars, wizVars, logVars>>

ConvInit ==
    /\ conv_input \in ConvInputs
    /\ conv_op = "none"
    /\ conv_trace = <<>>
    /\ conv_result = NoResult
    /\ conv_file = "absent"

ConvIdle ==
    /\ conv_input = [scheme |-> "", netloc |-> "", exists |-> FALSE, ext |-> ".pdf", lib |-> "ok",
                     url_result |-> Returned("output_path"), left |-> "absent",
                     pdf |-> "ok", save |-> "ok"]
    /\ conv_op = "none"
    /\ conv_trace = <<>>
    /\ conv_result = NoResult
    /\ conv_file = "absent"

(***************************************************************************)
(* FileConverter.convert_url_to_pdf with the url2pdf.py process it starts  *)
(***************************************************************************)
\* The status codes the probe answers with in the model.
Statuses == {200, 204, 399, 400, 404, 500}

StatusRejectedM(code) == code > 400
\* response.status_code >= 400 (line 234).
StatusRejected(code) == code >= 400

\* _generate_unique_filename for one caller at time timestamp (lines 121-131):
\* the base name, or the base name with the timestamp when it is taken.
UniqueName(taken, timestamp) == IF taken THEN <<"base", timestamp>> ELSE <<"base">>

otherUrl == <<fmtVars, tabVars, imgVars, cvVars, nameVars, parserVars, cleanerVars, pptxVars, wizVars, logVars>>

\* Lines 221-223: the syntax check.
Validate ==
    /\ url_pc = "start"
    /\ url_trace' = Append(url_trace, "is_valid_url")
    /\ IF url_valid
       THEN url_pc' = "validated" /\ UNCHANGED url_result
       ELSE url_pc' = "raised" /\ url_result' = Raised("ValueError", "Invalid URL")
    /\ UNCHANGED <<url_valid, name_taken, probe, status, output_path, pdf_visible>>
    /\ UNCHANGED <<otherUrl, childVars>>

\* Lines 225-245: the reachability probe, requests.get with timeout=10.
Probe ==
    /\ url_pc = "validated"
    /\ url_trace' = Append(url_trace, "requests.get")
    /\ \/ /\ probe' = "RequestException"
          /\ url_pc' = "raised"
          /\ url_result' = Raised("Exception", "Connection error")
          /\ UNCHANGED status
       \/ \E code \in Statuses :
             /\ probe' = "answered"
             /\ status' = code
             /\ IF StatusRejected(code)
                THEN url_pc' = "raised"
                     /\ url_result' = Raised("Exception", "Unavailable page")
                ELSE url_pc' = "probed" /\ UNCHANGED url_result
    /\ UNCHANGED <<url_valid, name_taken, output_path, pdf_visible>>
    /\ UNCHANGED <<otherUrl, childVars>>

\* Lines 247-261 and url2pdf.py lines 34-93: the output path is chosen and
\* the script is started; it builds the application, the view, the loop and
\* the timer, starts the load and the 30 s timer and enters loop.exec_().
StartRender ==
    /\ url_pc = "probed"
    /\ url_trace' = Append(url_trace, "subprocess.run")
    /\ output_path' = UniqueName(name_taken, 0)
    /\ url_pc' = "running"
    /\ child_pc' = "exec"
    /\ page_phase' = "loading"
    /\ app' = "live" /\ web_view' = "live" /\ web_page' = "live" /\ timer' = "live"
    /\ UNCHANGED <<url_valid, name_taken, probe, status, url_result, pdf_visible, exit_code>>
    /\ UNCHANGED otherUrl

\* sys.exit(1) inside a slot: SystemExit ends the process with code 1 where
\* it stands; the statements after loop.exec_() are not reached.
SysExit ==
    /\ child_pc' = "exited"
    /\ exit_code' = "1"
    /\ UNCHANGED <<app, web_view, web_page>>

\* handle_load_finished (url2pdf.py lines 53-68).
LoadFinished ==
    /\ child_pc = "exec" /\ page_phase = "loading"
    /\ \E ok \in BOOLEAN :
          IF ok
          THEN /\ page_phase' = "printing"
               /\ UNCHANGED <<child_pc, app, web_view, web_page, timer, exit_code>>
          ELSE /\ SysExit
               /\ UNCHANGED <<page_phase, timer>>
    /\ UNCHANGED <<urlVars, otherUrl>>

\* handle_pdf_finished (url2pdf.py lines 70-86).
PdfPrintingFinished ==
    /\ child_pc = "exec" /\ page_phase = "printing"
    /\ \E success \in BOOLEAN :
          IF success
          THEN /\ page_phase' = "done"
               /\ child_pc' = "quit"
               /\ UNCHANGED <<app, web_view, web_page, timer, exit_code>>
          ELSE /\ SysExit
               /\ UNCHANGED <<page_phase, timer>>
    /\ UNCHANGED <<urlVars, otherUrl>>

\* The timer's timeout slot (url2pdf.py lines 45-51) after 30 s in the loop.
TimerTimeout ==
    /\ child_pc = "exec"
    /\ timer' = "fired"
    /\ SysExit
    /\ UNCHANGED page_phase
    /\ UNCHANGED <<urlVars, otherUrl>>

\* url2pdf.py lines 95-98 and the return: the page and the view are handed
\* to deleteLater, the application quits, the timer goes with the frame.
ReleaseAndReturn ==
    /\ child_pc = "quit"
    /\ web_page' = "released" /\ web_view' = "released" /\ app' = "released"
    /\ timer' = "released"
    /\ child_pc' = "returned"
    /\ exit_code' = "0"
    /\ UNCHANGED page_phase
    /\ UNCHANGED <<urlVars, otherUrl>>

\* The printed file becomes visible to the parent.
PdfAppears ==
    /\ page_phase = "done" /\ ~pdf_visible
    /\ url_pc \in {"running", "waiting"}
    /\ pdf_visible' = TRUE
    /\ UNCHANGED <<url_valid, name_taken, url_pc, probe, status, url_trace, url_result,
                   output_path>>
    /\ UNCHANGED <<otherUrl, childVars>>

\* subprocess.run(check=True) ends (lines 256-261, 278-280).
RenderEnds ==
    /\ url_pc = "running" /\ exit_code # "none"
    /\ IF exit_code = "0"
       THEN url_pc' = "waiting" /\ UNCHANGED url_result
       ELSE url_pc' = "raised"
            /\ url_result' = Raised("Exception", "URL to PDF conversion error")
    /\ UNCHANGED <<url_valid, name_taken, probe, status, url_trace, output_path, pdf_visible>>
    /\ UNCHANGED <<otherUrl, childVars>>

\* The wait loop of lines 263-276: the file is there, or 10 s pass.
WaitEnds ==
    /\ url_pc = "waiting"
    /\ IF pdf_visible
       THEN url_pc' = "returned" /\ url_result' = Returned("output_path")
       ELSE url_pc' = "raised"
            /\ url_result' = Raised("FileNotFoundError", "PDF not found after subprocess")
    /\ UNCHANGED <<url_valid, name_taken, probe, status, url_trace, output_path, pdf_visible>>
    /\ UNCHANGED <<otherUrl, childVars>>

UrlInit ==
    /\ url_valid \in BOOLEAN
    /\ name_taken \in BOOLEAN
    /\ url_pc = "start"
    /\ probe = "none"
    /\ status = 0
    /\ url_trace = <<>>
    /\ url_result = NoResult
    /\ output_path = <<>>
    /\ pdf_visible = FALSE
    /\ child_pc = "none"
    /\ page_phase = "loading"
    /\ app = "none" /\ web_view = "none" /\ web_page = "none" /\ timer = "none"
    /\ exit_code = "none"

UrlIdle ==
    /\ url_valid = FALSE
    /\ name_taken = FALSE
    /\ url_pc = "start"
    /\ probe = "none"
    /\ status = 0
    /\ url_trace = <<>>
    /\ url_result = NoResult
    /\ output_path = <<>>
    /\ pdf_visible = FALSE
    /\ child_pc = "none"
    /\ page_phase = "loading"
    /\ app = "none" /\ web_view = "none" /\ web_page = "none" /\ timer = "none"
    /\ exit_code = "none"

UrlNext ==
    \/ Validate
    \/ Probe
    \/ StartRender
    \/ LoadFinished
    \/ PdfPrintingFinished
    \/ TimerTimeout
    \/ ReleaseAndReturn
    \/ PdfAppears
    \/ RenderEnds
    \/ WaitEnds

(***************************************************************************)
(* Conversions that share an output directory and a base name              *)
(***************************************************************************)
Conversions == 1..MaxConversions

\* _generate_unique_filename (lines 121-131) called by conversion c.
GenerateUniqueFilename(c) ==
    /\ name_pc[c] = "start"
    /\ name_path' = [name_path EXCEPT ![c] = UniqueName(<<"base">> \in files, now)]
    /\ name_pc' = [name_pc EXCEPT ![c] = "named"]
    /\ UNCHANGED <<files, now>>
    /\ UNCHANGED <<fmtVars, tabVars, imgVars, cvVars, urlVars, childVars, parserVars, cleanerVars, pptxVars, wizVars, logVars>>

\* The converter writes its document to the path it was given (img.save,
\* pdfkit.from_file, canvas.save, printToPdf).
WriteDocument(c) ==
    /\ name_pc[c] = "named"
    /\ files' = files \cup {name_path[c]}
    /\ name_pc' = [name_pc EXCEPT ![c] = "written"]
    /\ UNCHANGED <<now, name_path>>
    /\ UNCHANGED <<fmtVars, tabVars, imgVars, cvVars, urlVars, childVars, parserVars, cleanerVars, pptxVars, wizVars, logVars>>

\* A second passes.
Tick ==
    /\ now < MaxClock
    /\ now' = now + 1
    /\ UNCHANGED <<files, name_pc, name_path>>
    /\ UNCHANGED <<fmtVars, tabVars, imgVars, cvVars, urlVars, childVars, parserVars, cleanerVars, pptxVars, wizVars, logVars>>

NameInit ==
    /\ files \in {{}, {<<"base">>}}
    /\ now = 0
    /\ name_pc = [c \in Conversions |-> "start"]
    /\ name_path = [c \in Conversions |-> <<>>]

NameIdle ==
    /\ files = {}
    /\ now = 0
    /\ name_pc = [c \in Conversions |-> "start"]
    /\ name_path = [c \in Conversions |-> <<>>]

NameNext ==
    \/ \E c \in Conversions : GenerateUniqueFilename(c)
    \/ \E c \in Conversions : WriteDocument(c)
    \/ Tick

(***************************************************************************)
(* PdfParser.extract_metadata and PdfParser.extract_text                   *)
(***************************************************************************)
\* self.file_path by what the libraries do with it:
\*   stat     os.stat: "ok" or "OSError"
\*   open     fitz.open: "ok", "FileDataError" (corrupt content) or another
\*            exception ("RuntimeError")
\*   docmeta  doc.metadata: "dict", or "None" (a document that opens without
\*            its metadata, as an encrypted one does)
\*   miner    pdfminer's extract_text: "text" or the exception it raises
ParserEnvs ==
    [stat : {"ok", "OSError"},
     open : {"ok", "FileDataError", "RuntimeError"},
     docmeta : {"dict", "None"},
     miner : {"text", "FileNotFoundError", "PDFSyntaxError", "ValueError"},
     camelot : {"tables", "Exception"}]

\* The entries of lines 214-221.
StatFields == {<<"filename", "name">>, <<"file_size_mb", "size">>, <<"modified_time", "mtime">>}

\* The entries of lines 236-239.
DocFields ==
    {<<"title", "t">>, <<"author", "a">>, <<"creation_date", "d">>, <<"page_count", "n">>}

DocHandlerM == {"FileDataError"}
\* The exceptions the handlers of lines 244-249 catch.
DocHandler == {"FileDataError", "Exception"}

\* The error entry the handlers of lines 244-249 write for exception e.
DocError(e) ==
    IF Catches({"FileDataError"}, e) THEN <<"error", "Invalid PDF file">>
    ELSE <<"error", "Unexpected error">>

\* The second try block (lines 232-251) on the record md so far.
ReadDocMetadata(env, md) ==
    LET exc == IF env.open # "ok" THEN env.open
               ELSE IF env.docmeta = "None" THEN "AttributeError"
               ELSE "none"
        trace == <<"os.stat", "fitz.open">>
    IN  IF exc = "none" THEN [md |-> md \cup DocFields, trace |-> trace, exc |-> "none"]
        ELSE IF Catches(DocHandler, exc)
        THEN [md |-> md \cup {DocError(exc)}, trace |-> trace, exc |-> "none"]
        ELSE [md |-> md, trace |-> trace, exc |-> exc]

ExtractMetadataFallsThroughM(env) ==
    IF env.stat # "ok"
    THEN ReadDocMetadata(env, {<<"error", "Failed to get file stats">>})
    ELSE ReadDocMetadata(env, StatFields)
\* extract_metadata (lines 208-251): the record, the library calls and the
\* exception that leaves it.
ExtractMetadataOf(env) ==
    IF env.stat # "ok"
    THEN [md |-> {<<"error", "Failed to get file stats">>}, trace |-> <<"os.stat">>,
          exc |-> "none"]
    ELSE ReadDocMetadata(env, StatFields)

TextHandlerM == {"FileNotFoundError", "ValueError"}
\* The exceptions the handlers of lines 259-264 catch.
TextHandler == {"FileNotFoundError", "Exception"}

\* extract_text (lines 253-264): the string returned and the exception that
\* leaves it.
ExtractTextOf(env) ==
    IF env.miner = "text" THEN [text |-> "T", exc |-> "none"]
    ELSE IF Catches(TextHandler, env.miner) THEN [text |-> "", exc |-> "none"]
    ELSE [text |-> "none", exc |-> env.miner]

ExtractMetadata ==
    /\ "extract_metadata" \notin parser_calls
    /\ parser_exc = "none"
    /\ metadata' = ExtractMetadataOf(parser_env).md
    /\ parser_trace' = parser_trace \o ExtractMetadataOf(parser_env).trace
    /\ parser_exc' = ExtractMetadataOf(parser_env).exc
    /\ parser_calls' = parser_calls \cup {"extract_metadata"}
    /\ UNCHANGED <<parser_env, text, parse_result>>
    /\ UNCHANGED <<fmtVars, tabVars, imgVars, cvVars, urlVars, childVars, nameVars, cleanerVars, pptxVars, wizVars, logVars>>

ExtractText ==
    /\ "extract_text" \notin parser_calls
    /\ parser_exc = "none"
    /\ text' = ExtractTextOf(parser_env).text
    /\ parser_trace' = Append(parser_trace, "pdfminer.extract_text")
    /\ parser_exc' = ExtractTextOf(parser_env).exc
    /\ parser_calls' = parser_calls \cup {"extract_text"}
    /\ UNCHANGED <<parser_env, metadata, parse_result>>
    /\ UNCHANGED <<fmtVars, tabVars, imgVars, cvVars, urlVars, childVars, nameVars, cleanerVars, pptxVars, wizVars, logVars>>

\* PdfParser.extract_images (lines 266-368): fitz.open is guarded for
\* FileDataError only (line 272); everything raised after it is caught
\* (lines 341-366).  images is the list returned.
ExtractImagesOf(env) ==
    IF env.open = "ok" THEN [images |-> "images", exc |-> "none"]
    ELSE IF Catches({"FileDataError"}, env.open) THEN [images |-> "[]", exc |-> "none"]
    ELSE [images |-> "none", exc |-> env.open]

\* PdfParser.extract_tables (lines 370-383): every exception is caught.
ExtractTablesOf(env) ==
    IF env.camelot = "tables" THEN [tables |-> "tables", exc |-> "none"]
    ELSE [tables |-> "[]", exc |-> "none"]

\* PdfParser.create_structured_content (lines 385-425): fitz.open is guarded
\* for FileDataError only (line 389); the page loop catches everything.
CreateStructuredContentOf(env) ==
    IF env.open = "ok" THEN [structured_content |-> "pages", exc |-> "none"]
    ELSE IF Catches({"FileDataError"}, env.open)
    THEN [structured_content |-> "[]", exc |-> "none"]
    ELSE [structured_content |-> "[]", exc |-> env.open]

\* What parse_all returns: nothing yet, the empty dict, or the five results.
NotParsed ==
    [state |-> "none", text |-> "none", images |-> "none", tables |-> "none",
     structured_content |-> "none", metadata |-> {}]
EmptyDict == [NotParsed EXCEPT !.state = "{}"]

\* The steps of lines 175-179, in order.
ParseSteps ==
    <<"extract_metadata", "extract_text", "extract_images", "extract_tables",
      "create_structured_content">>

\* The exception that leaves step k of parse_all under env.
StepExc(env, k) ==
    CASE k = 1 -> ExtractMetadataOf(env).exc
      [] k = 2 -> ExtractTextOf(env).exc
      [] k = 3 -> ExtractImagesOf(env).exc
      [] k = 4 -> ExtractTablesOf(env).exc
      [] k = 5 -> CreateStructuredContentOf(env).exc

\* The steps parse_all gets through: all five, or those before the first
\* that raises.
StepsDone(env) ==
    LET raising == {k \in 1..5 : StepExc(env, k) # "none"}
    IN  IF raising = {} THEN 5 ELSE (CHOOSE k \in raising : \A j \in raising : k <= j) - 1

\* The exceptions the handlers of lines 194-206 catch.
ParseAllHandler == {"FileNotFoundError", "ValueError", "MemoryError", "Exception"}

\* parse_all (lines 169-206) on a new PdfParser, the whole call.
ParseAll ==
    /\ parser_calls = {}
    /\ parser_exc = "none"
    /\ LET done == StepsDone(parser_env)
           started == IF done = 5 THEN 5 ELSE done + 1
           exc == IF done = 5 THEN "none" ELSE StepExc(parser_env, done + 1)
       IN  /\ metadata' = IF done >= 1 THEN ExtractMetadataOf(parser_env).md ELSE metadata
           /\ text' = IF done >= 2 THEN ExtractTextOf(parser_env).text ELSE text
           /\ parser_calls' = {"parse_all"} \cup {ParseSteps[k] : k \in 1..started}
           /\ parser_trace' = ExtractMetadataOf(parser_env).trace
                                \o (IF started >= 2 THEN <<"pdfminer.extract_text">> ELSE <<>>)
                                \o (IF started >= 3 THEN <<"fitz.open">> ELSE <<>>)
                                \o (IF started >= 4 THEN <<"extract_tables_from_pdf">> ELSE <<>>)
                                \o (IF started >= 5 THEN <<"fitz.open">> ELSE <<>>)
           /\ parser_exc' = IF exc = "none" \/ Catches(ParseAllHandler, exc)
                            THEN "none" ELSE exc
           /\ parse_result' =
                 IF exc = "none"
                 THEN [state |-> "dict",
                       text |-> ExtractTextOf(parser_env).text,
                       images |-> ExtractImagesOf(parser_env).images,
                       tables |-> ExtractTablesOf(parser_env).tables,
                       structured_content |->
                           CreateStructuredContentOf(parser_env).structured_content,
                       metadata |-> ExtractMetadataOf(parser_env).md]
                 ELSE IF Catches(ParseAllHandler, exc) THEN EmptyDict
                 ELSE NotParsed
    /\ UNCHANGED parser_env
    /\ UNCHANGED <<fmtVars, tabVars, imgVars, cvVars, urlVars, childVars, nameVars, cleanerVars, pptxVars, wizVars, logVars>>

ParserInit ==
    /\ parser_env \in ParserEnvs
    /\ metadata = {}
    /\ text = "none"
    /\ parser_calls = {}
    /\ parser_trace = <<>>
    /\ parser_exc = "none"
    /\ parse_result = NotParsed

ParserIdle ==
    /\ parser_env = [stat |-> "ok", open |-> "ok", docmeta |-> "dict", miner |-> "text",
                     camelot |-> "tables"]
    /\ metadata = {}
    /\ text = "none"
    /\ parser_calls = {}
    /\ parser_trace = <<>>
    /\ parser_exc = "none"
    /\ parse_result = NotParsed

ParserNext == ExtractMetadata \/ ExtractText \/ ParseAll

(***************************************************************************)
(* TextCleaner (text_cleaner.py)                                           *)
(***************************************************************************)
\* A text is a sequence of characters.  The characters of the model: a
\* letter, a digit, a space, a form feed, a full stop, an apostrophe, the
\* square brackets and the ellipsis character U+2026 (written "ELLIPSIS").
Alphabet == {"a", "1", " ", "\f", ".", "'", "[", "]", "ELLIPSIS"}

\* The characters of the alphabet that the classes of the regular
\* expressions match: \d, \s, \w, the class special_chars of line 87 and
\* the class [\w\s.,!?-] of line 82.
Digits == {"1"}
Whitespace == {" ", "\f"}
WordChars == {"a", "1"}
SpecialChars == {".", "[", "]"}
KeptChars == WordChars \cup Whitespace \cup {"."}

RECURSIVE RunLength(_, _)
\* The length of the longest prefix of t whose characters are all in S.
RunLength(t, S) ==
    IF t = <<>> \/ Head(t) \notin S THEN 0 ELSE 1 + RunLength(Tail(t), S)

\* t without its first n characters.
Drop(t, n) == SubSeq(t, n + 1, Len(t))

\* remove_pdf_artifacts (lines 26-45): of its six substitutions only the
\* form feed (line 28) has a match in a text over the alphabet; the others
\* need a letter of 'Page', a bullet or dash, a watermark word, 'of' or '|'.
RemovePdfArtifacts(t) == SelectSeq(t, LAMBDA c : c # "\f")

RECURSIVE CollapseWhitespace(_)
\* re.sub(r'\s+', ' ', text) (line 51).
CollapseWhitespace(t) ==
    IF t = <<>> THEN <<>>
    ELSE IF Head(t) \in Whitespace
    THEN <<" ">> \o CollapseWhitespace(Drop(t, RunLength(t, Whitespace)))
    ELSE <<Head(t)>> \o CollapseWhitespace(Tail(t))

\* normalize_whitespace (lines 47-51): the alphabet has no newline, so the
\* substitutions of lines 49-50 match nothing.
NormalizeWhitespace(t) == CollapseWhitespace(t)

\* remove_emojis_and_special_chars (line 55): the alphabet holds no emoji.
RemoveEmojisAndSpecialChars(t) == t

RECURSIVE RemoveBracketedNumbers(_)
\* re.sub(r'\[\d+\]', '', text) (line 59): leftmost matches, left to right.
RemoveBracketedNumbers(t) ==
    IF t = <<>> THEN <<>>
    ELSE LET d == RunLength(Tail(t), Digits)
         IN  IF Head(t) = "[" /\ d >= 1 /\ Len(t) >= d + 2 /\ t[d + 2] = "]"
             THEN RemoveBracketedNumbers(Drop(t, d + 2))
             ELSE <<Head(t)>> \o RemoveBracketedNumbers(Tail(t))

\* remove_references_and_notes (lines 57-62): the substitutions of lines
\* 60-62 need a parenthesis or an asterisk.
RemoveReferencesAndNotes(t) == RemoveBracketedNumbers(t)

RECURSIVE NormalizePunctuation(_)
\* normalize_punctuation (lines 64-76): of the characters replaced only the
\* ellipsis is in the alphabet; it becomes three full stops.
NormalizePunctuation(t) ==
    IF t = <<>> THEN <<>>
    ELSE (IF Head(t) = "ELLIPSIS" THEN <<".", ".", ".">> ELSE <<Head(t)>>)
             \o NormalizePunctuation(Tail(t))

RECURSIVE LStrip(_)
LStrip(t) == IF t # <<>> /\ Head(t) \in Whitespace THEN LStrip(Tail(t)) ELSE t

RECURSIVE RStrip(_)
RStrip(t) ==
    IF t # <<>> /\ t[Len(t)] \in Whitespace THEN RStrip(SubSeq(t, 1, Len(t) - 1)) ELSE t

\* str.strip().
Strip(t) == RStrip(LStrip(t))

\* ' '.join(text.split()) (line 80).
JoinSplit(t) == Strip(CollapseWhitespace(t))

RECURSIVE RemoveRepeatedChars(_)
\* remove_repeated_chars (lines 84-89): re.sub(r'([...]){3,}', r'\1\1', text).
\* The group matches any character of the class at each repetition, so a
\* match is a maximal run of three or more characters of the class, and \1
\* is the character the group matched last.
RemoveRepeatedChars(t) ==
    IF t = <<>> THEN <<>>
    ELSE LET n == RunLength(t, SpecialChars)
         IN  IF n >= 3 THEN <<t[n], t[n]>> \o RemoveRepeatedChars(Drop(t, n))
             ELSE IF n >= 1 THEN SubSeq(t, 1, n) \o RemoveRepeatedChars(Drop(t, n))
             ELSE <<Head(t)>> \o RemoveRepeatedChars(Tail(t))

\* re.sub(r'[^\w\s.,!?-]', '', text) (line 82).
StripOtherChars(t) == SelectSeq(t, LAMBDA c : c \in KeptChars)

\* final_cleanup (lines 78-82).
FinalCleanup(t) == StripOtherChars(RemoveRepeatedChars(JoinSplit(t)))

\* TextCleaner(t).clean_text() (lines 11-24).
CleanTextOf(t) ==
    IF t = <<>> THEN <<>>
    ELSE Strip(FinalCleanup(NormalizePunctuation(RemoveReferencesAndNotes(
             RemoveEmojisAndSpecialChars(NormalizeWhitespace(
                 RemovePdfArtifacts(t)))))))

\* The text the next TextCleaner is constructed with.
CleanerText == cleaner_values[Len(cleaner_values)]

\* One call on a TextCleaner made for the current text; its result is the
\* current text from then on.
CleanerCall(op, result) ==
    /\ Len(cleaner_ops) < MaxCleanerCalls
    /\ cleaner_values' = Append(cleaner_values, result)
    /\ cleaner_ops' = Append(cleaner_ops, op)
    /\ UNCHANGED <<fmtVars, tabVars, imgVars, cvVars, urlVars, childVars, nameVars, parserVars, pptxVars, wizVars, logVars>>

CallCleanText == CleanerCall("clean_text", CleanTextOf(CleanerText))

CallRemoveRepeatedChars ==
    CleanerCall("remove_repeated_chars", RemoveRepeatedChars(CleanerText))

CallFinalCleanup == CleanerCall("final_cleanup", FinalCleanup(CleanerText))

CleanerNext == CallCleanText \/ CallRemoveRepeatedChars \/ CallFinalCleanup

CleanerInit ==
    /\ cleaner_values \in {<<t>> : t \in SeqsUpTo(Alphabet, MaxTextLen)}
    /\ cleaner_ops = <<>>

CleanerIdle ==
    /\ cleaner_values = <<<<>>>>
    /\ cleaner_ops = <<>>

(***************************************************************************)
(* FileConverter.convert_pptx_to_pdf (other_files_parser.py)               *)
(***************************************************************************)
\* The height of reportlab's letter page in points (line 353), the margin
\* of lines 361 and 369, and the steps of lines 364 and 373.
LetterHeight == 792
PageMargin == 40
TitleStep == 30
LineStep == 15

\* A shape: whether it has a text attribute, and the number of lines of
\* shape.text.split("\n"); lines = 0 stands for a text that is blank
\* (shape.text.strip() is empty).
Shape(has_text, lines) == [has_text |-> has_text, lines |-> lines]

ShapeKinds == {Shape(FALSE, 0), Shape(TRUE, 0), Shape(TRUE, 1), Shape(TRUE, 46)}

RECURSIVE Decks(_, _)
\* The presentations of at most p slides holding at most m shapes in all.
Decks(p, m) ==
    IF p = 0 THEN {<<>>}
    ELSE {<<>>}
         \cup UNION {{<<sh>> \o rest :
                          sh \in SeqsOfLen(ShapeKinds, k), rest \in Decks(p - 1, m - k)} :
                      k \in 0..m}

\* canvas.Canvas: the pages ended so far, the strings on the page being
\* drawn, and the y of the function.
NewCanvas == [pages |-> <<>>, cur |-> <<>>, y |-> 0]

\* c.showPage(): the page being drawn ends and an empty one begins.
ShowPage(cv) == [cv EXCEPT !.pages = Append(cv.pages, cv.cur), !.cur = <<>>]

\* c.drawString(40, y, s) at the canvas's y.
DrawString(cv, str) == [cv EXCEPT !.cur = Append(cv.cur, [y |-> cv.y] @@ str)]

\* c.save(): a page that has been drawn on is ended, then the file is written.
Save(cv) == IF cv.cur # <<>> THEN ShowPage(cv) ELSE cv

SlideBreakM(i) == FALSE
\* The test of line 358 (i counts from 1 here): every slide but the first
\* ends the page before it.
SlideBreak(i) == i > 1

\* The test of line 369.
OutOfSpace(y) == y < PageMargin

\* shape is drawn: the test of line 367.
HasText(sh) == sh.has_text /\ sh.lines > 0

\* The number of turns of the loop of lines 368-373 that draw at y,
\* y - 15, ... before the test of line 369 asks for a new page.
LinesThatFit(y) ==
    CHOOSE m \in 0..(LetterHeight \div LineStep + 1) :
        /\ \A k \in 0..(m - 1) : ~OutOfSpace(y - k * LineStep)
        /\ OutOfSpace(y - m * LineStep)

RECURSIVE DrawLines(_, _, _, _, _)
\* The loop of lines 368-373 from line k of shape j of slide i on, the
\* lines that go on one page taken together.
DrawLines(cv, i, j, k, n) ==
    IF k > n THEN cv
    ELSE IF OutOfSpace(cv.y)
    THEN DrawLines([ShowPage(cv) EXCEPT !.y = LetterHeight - PageMargin], i, j, k, n)
    ELSE LET fit == LinesThatFit(cv.y)
             m == IF fit < n - k + 1 THEN fit ELSE n - k + 1
         IN  DrawLines([cv EXCEPT
                           !.cur = @ \o [x \in 1..m |->
                                            [y |-> cv.y - (x - 1) * LineStep, slide |-> i,
                                             kind |-> "line", shape |-> j,
                                             line |-> k + x - 1]],
                           !.y = @ - m * LineStep],
                       i, j, k + m, n)

RECURSIVE DrawShapes(_, _, _, _)
\* The loop of lines 366-373 from shape j of slide i on.
DrawShapes(cv, i, shapes, j) ==
    IF j > Len(shapes) THEN cv
    ELSE DrawShapes(IF HasText(shapes[j]) THEN DrawLines(cv, i, j, 1, shapes[j].lines)
                    ELSE cv,
                    i, shapes, j + 1)

RECURSIVE DrawSlides(_, _, _)
\* The loop of lines 357-373 from slide i on.
DrawSlides(cv, sl, i) ==
    IF i > Len(sl) THEN cv
    ELSE LET c1 == IF SlideBreak(i) THEN ShowPage(cv) ELSE cv
             c2 == DrawString([c1 EXCEPT !.y = LetterHeight - PageMargin],
                              [slide |-> i, kind |-> "title", shape |-> 0, line |-> 0])
         IN  DrawSlides(DrawShapes([c2 EXCEPT !.y = c2.y - TitleStep], i, sl[i], 1),
                        sl, i + 1)

\* The exceptions the handler of line 379 turns into RuntimeError.
PptxHandler == {"OSError", "ValueError"}

\* convert_pptx_to_pdf (lines 336-381), the whole call.
ConvertPptxToPdf ==
    /\ pptx_result = "none"
    /\ LET failure == IF pptx_env.open # "ok" THEN pptx_env.open ELSE pptx_env.save
       IN  IF failure = "ok"
           THEN /\ pdf_pages' = Save(DrawSlides(NewCanvas, slides, 1)).pages
                /\ pptx_result' = "returned"
           ELSE /\ pdf_pages' = <<>>
                /\ pptx_result' = IF Catches(PptxHandler, failure)
                                  THEN "RuntimeError" ELSE failure
    /\ UNCHANGED <<pptx_env, slides>>
    /\ UNCHANGED <<fmtVars, tabVars, imgVars, cvVars, urlVars, childVars, nameVars, parserVars, cleanerVars, wizVars, logVars>>

PptxInit ==
    /\ pptx_env \in [open : {"ok", "OSError", "Other"}, save : {"ok", "OSError"}]
    /\ slides \in Decks(MaxSlides, MaxShapes)
    /\ pdf_pages = <<>>
    /\ pptx_result = "none"

PptxIdle ==
    /\ pptx_env = [open |-> "ok", save |-> "ok"]
    /\ slides = <<>>
    /\ pdf_pages = <<>>
    /\ pptx_result = "none"

(***************************************************************************)
(* The wizard: app.py main, ui/steps/*.py, workflow/session.py             *)
(***************************************************************************)
\* st.session_state after initialize_session_state (session.py lines 8-29);
\* clear_state_on_enter is set by render_auto_pipeline (step_all.py line 17).
NewSession ==
    [step |-> 0, llm_content |-> "None", plan_text |-> "None", podcast_text |-> "None",
     json_data |-> "None", audio_path |-> "None", is_premium |-> FALSE,
     processing |-> FALSE, file_processed |-> FALSE, clear_state_on_enter |-> TRUE]

\* What process_uploaded_file / process_url_input return (process_file.py
\* lines 14-59): None after an exception, else the document string, which
\* may be empty; a non-empty string is content the safety service accepts
\* or content it flags.
Ingested == {"None", "", "safe text", "flagged text"}

\* What check_content_safety(text) does (content_safety.py lines 13-35):
\* returns False for flagged content, True otherwise, or raises when the
\* service call fails.
Verdicts(content) ==
    {IF content = "flagged text" THEN "False" ELSE "True", "raised"}

NoAction ==
    [handler |-> "none", content |-> "None", verdict |-> "not called",
     step |-> 0, llm_content |-> "None", file_processed |-> FALSE]

\* The record of a handled button: the content ingested, the verdict of the
\* safety check, and step, llm_content and file_processed before it.
Handled(handler, content, verdict) ==
    [handler |-> handler, content |-> content, verdict |-> verdict,
     step |-> session.step, llm_content |-> session.llm_content,
     file_processed |-> session.file_processed]

otherWiz ==
    <<fmtVars, tabVars, imgVars, cvVars, urlVars, childVars, nameVars, parserVars,
      cleanerVars, pptxVars, logVars>>

\* render_home_page (step0_homepage.py lines 46-48 and 61-63).
HomeChoose ==
    /\ session.step = 0
    /\ \E mode \in {1, 6} : session' = [session EXCEPT !.step = mode]
    /\ last_action' = Handled("home", "None", "not called")
    /\ UNCHANGED <<safety_passed, plan_calls, otherWiz>>

\* render_sidebar, the home button (sidebar.py lines 11-17).
SidebarHome ==
    /\ session.step \in 1..5
    /\ session' = [session EXCEPT !.step = 0]
    /\ last_action' = Handled("sidebar_home", "None", "not called")
    /\ UNCHANGED <<safety_passed, plan_calls, otherWiz>>

\* render_sidebar, the reset button: reset_workflow (session.py lines 32-57).
ResetWorkflow ==
    /\ session.step \in 1..5
    /\ session' = [NewSession EXCEPT !.step = 1,
                                     !.clear_state_on_enter = session.clear_state_on_enter]
    /\ last_action' = Handled("reset", "None", "not called")
    /\ UNCHANGED <<safety_passed, plan_calls, otherWiz>>

Step1StoresM(ss, content, verdict) ==
    IF verdict = "raised" THEN [ss EXCEPT !.processing = TRUE]
    ELSE [ss EXCEPT !.llm_content = content, !.step = 2, !.processing = FALSE,
                    !.file_processed = TRUE]
\* Lines 101-112 of step1_upload.py for non-empty content: the session
\* state after the safety check gave verdict.
Step1Stores(ss, content, verdict) ==
    CASE verdict = "raised" ->
             \* the exception leaves render_step_1 at line 102
             [ss EXCEPT !.processing = TRUE]
      [] verdict = "False" -> [ss EXCEPT !.processing = FALSE]
      [] verdict = "True" ->
             [ss EXCEPT !.llm_content = content, !.step = 2, !.processing = FALSE,
                        !.file_processed = TRUE]

\* render_step_1 with the process button pressed (step1_upload.py lines
\* 92-114).  The button is disabled while processing (line 82).
RenderStep1 ==
    /\ session.step = 1 /\ ~session.processing
    /\ \E content \in Ingested :
          IF content \in {"None", ""}
          THEN /\ session' = [session EXCEPT !.processing = FALSE]
               /\ last_action' = Handled("step1", content, "not called")
               /\ UNCHANGED safety_passed
          ELSE \E verdict \in Verdicts(content) :
                  /\ last_action' = Handled("step1", content, verdict)
                  /\ safety_passed' = IF verdict = "True"
                                      THEN safety_passed \cup {content} ELSE safety_passed
                  /\ session' = Step1Stores(session, content, verdict)
    /\ UNCHANGED <<plan_calls, otherWiz>>

\* generate_plan_content(content) (generation.py lines 11-29): the plan, or
\* None after an exception.
Plans == {"plan", "None"}

\* render_step_2 with the generate button pressed (step2_plan.py lines 58-72).
RenderStep2 ==
    /\ session.step = 2 /\ ~session.processing
    /\ plan_calls' = plan_calls \cup {[content |-> session.llm_content, by |-> "step2"]}
    /\ \E plan \in Plans :
          session' = IF plan # "None"
                     THEN [session EXCEPT !.plan_text = plan, !.step = 3,
                                          !.processing = FALSE]
                     ELSE [session EXCEPT !.processing = FALSE]
    /\ last_action' = Handled("step2", "None", "not called")
    /\ UNCHANGED <<safety_passed, otherWiz>>

\* render_step_3_and_4 with the generate button pressed (step3_and4.py
\* lines 55-74 and 110-158): is_premium is stored on every run; podcast is
\* what generate_podcast_content returns, saved whether dialog_to_json and
\* save_to_file return.
RenderStep3 ==
    /\ session.step = 3 /\ ~session.processing
    /\ \E premium \in BOOLEAN, podcast \in {"podcast", "None"}, saved \in BOOLEAN :
          session' =
              IF podcast = "None"
              THEN [session EXCEPT !.is_premium = premium, !.processing = FALSE]
              ELSE IF ~saved
              THEN \* json.dumps or save_to_file raises: the handler of line 156
                   [session EXCEPT !.is_premium = premium, !.podcast_text = podcast,
                                   !.json_data = "json", !.processing = FALSE]
              ELSE [session EXCEPT !.is_premium = premium, !.podcast_text = podcast,
                                   !.json_data = "json", !.step = 5,
                                   !.processing = FALSE]
    /\ last_action' = Handled("step3", "None", "not called")
    /\ UNCHANGED <<safety_passed, plan_calls, otherWiz>>

\* render_step_5 with the generate button pressed (step5_audio.py lines
\* 46-71): audio is what generate_audio_from_json returns; a failed upload
\* is only warned about (lines 58-64).
RenderStep5 ==
    /\ session.step = 5 /\ ~session.processing
    /\ \E audio \in {"audio", "None"} :
          session' = IF audio # "None"
                     THEN [session EXCEPT !.audio_path = audio, !.processing = FALSE]
                     ELSE \* no branch for a failed generation: line 47 stands
                          [session EXCEPT !.processing = TRUE]
    /\ last_action' = Handled("step5", "None", "not called")
    /\ UNCHANGED <<safety_passed, plan_calls, otherWiz>>

\* The start of render_auto_pipeline (step_all.py lines 20-24).
EnterAuto(ss) ==
    IF ss.clear_state_on_enter
    THEN [ss EXCEPT !.clear_state_on_enter = FALSE, !.podcast_text = "None",
                    !.audio_path = "None", !.is_premium = FALSE]
    ELSE ss

\* render_auto_pipeline, the back button (step_all.py lines 116-119).
AutoBack ==
    /\ session.step = 6
    /\ session' = [EnterAuto(session) EXCEPT !.clear_state_on_enter = TRUE, !.step = 0]
    /\ last_action' = Handled("auto_back", "None", "not called")
    /\ UNCHANGED <<safety_passed, plan_calls, otherWiz>>

\* render_auto_pipeline, the start button (step_all.py lines 127-183); the
\* button is not disabled while processing (line 128).
RenderAutoPipeline ==
    /\ session.step = 6
    /\ \E content \in Ingested, plan \in Plans, podcast \in {"podcast", "None"},
          saved \in BOOLEAN, audio \in {"audio", "None"}, premium \in BOOLEAN :
          LET ingested == content \notin {"None", ""}
              done == ingested /\ plan # "None" /\ podcast # "None" /\ saved
              ss == EnterAuto(session)
          IN  /\ plan_calls' = IF ingested
                               THEN plan_calls \cup {[content |-> content, by |-> "auto"]}
                               ELSE plan_calls
              /\ session' = IF done
                            THEN [ss EXCEPT !.step = 6, !.podcast_text = podcast,
                                            !.audio_path = audio, !.is_premium = premium,
                                            !.processing = FALSE]
                            ELSE [ss EXCEPT !.processing = FALSE]
              /\ last_action' = [Handled("auto", content, "not called") EXCEPT
                                    !.llm_content = session.llm_content]
    /\ UNCHANGED <<safety_passed, otherWiz>>

WizNext ==
    \/ HomeChoose \/ SidebarHome \/ ResetWorkflow
    \/ RenderStep1 \/ RenderStep2 \/ RenderStep3 \/ RenderStep5
    \/ AutoBack \/ RenderAutoPipeline

WizInit ==
    /\ session = NewSession
    /\ safety_passed = {}
    /\ plan_calls = {}
    /\ last_action = NoAction

WizIdle == WizInit

(***************************************************************************)
(* The session-logger registry (utils/logging_config.py)                   *)
(***************************************************************************)
\* max_loggers stands for _max_loggers (line 98), which is 50.  Every
\* function below runs under _loggers_lock (lines 113, 263, 276), so a call
\* is one step whatever thread makes it.
\* One request id more than the registry takes.
RequestIds == 1..(max_loggers + 1)

otherLog ==
    <<fmtVars, tabVars, imgVars, cvVars, urlVars, childVars, nameVars, parserVars,
      cleanerVars, pptxVars, wizVars>>

\* The request ids registered in regs.
IdsOf(regs) == {regs[k] : k \in 1..Len(regs)}

\* What is recorded of a registry call: the call and its argument, the
\* size of _loggers and its first key before the call, whether the id was
\* registered, the keys the call removed, whether the id is the last key
\* after it.
Call(op, r, before, after, created) ==
    [op |-> op, id |-> r, created |-> created,
     size |-> Len(before),
     oldest |-> IF before = <<>> THEN 0 ELSE Head(before),
     known |-> r \in IdsOf(before),
     removed |-> IdsOf(before) \ IdsOf(after),
     newest |-> after # <<>> /\ after[Len(after)] = r]

\* request_id in _loggers.
Registered(regs, r) == \E k \in 1..Len(regs) : regs[k] = r

\* del _loggers[r].
Delete(regs, r) == SelectSeq(regs, LAMBDA x : x # r)

RegistryFullM(regs) == Len(regs) > max_loggers
\* len(_loggers) >= _max_loggers (line 115).
RegistryFull(regs) == Len(regs) >= max_loggers

\* The entry get_session_logger(r) evicts (lines 115-119): the first key of
\* the dict when it is full and r is new, else none (0).
Evicted(regs, r) ==
    IF RegistryFull(regs) /\ ~Registered(regs, r) THEN Head(regs) ELSE 0

\* _cleanup_logger for the ids of S (lines 126-137), by call op: handlers
\* that were open are closed and removed.
CleanupLoggers(S, op) ==
    /\ handlers' = [r \in RequestIds |-> IF r \in S THEN FALSE ELSE handlers[r]]
    /\ closed_by' = [r \in RequestIds |->
                        IF r \in S /\ handlers[r] THEN op ELSE closed_by[r]]

\* get_session_logger(r) (lines 101-123).  created tells whether
\* _create_session_logger returns (logging.FileHandler may raise OSError).
GetLogger(r, created) ==
    LET old == Evicted(loggers, r)
        kept == IF old = 0 THEN loggers ELSE Delete(loggers, old)
        new == ~Registered(loggers, r)
    IN  /\ loggers' = IF new /\ created THEN Append(kept, r) ELSE kept
        /\ handlers' = [x \in RequestIds |->
                           IF x = old THEN FALSE
                           ELSE IF x = r /\ new /\ created THEN TRUE
                           ELSE handlers[x]]
        /\ closed_by' = [x \in RequestIds |->
                            IF x = old /\ handlers[x] THEN "get_session_logger"
                            ELSE IF x = r /\ new /\ created THEN "none"
                            ELSE closed_by[x]]
        /\ last_call' = Call("get_session_logger", r, loggers, loggers', created)

\* main of app.py (line 54) and the other callers that use the logger for
\* one call only.
GetSessionLogger ==
    /\ \E r \in RequestIds, created \in BOOLEAN : GetLogger(r, created)
    /\ UNCHANGED <<held, otherLog>>

\* FileConverter.__init__ (other_files_parser.py lines 49-50): the
\* ingestion keeps the logger in self.logger while it runs.
FileConverterInit ==
    /\ Cardinality(held) < MaxIngestions
    /\ \E r \in RequestIds \ held :
          /\ GetLogger(r, TRUE)
          /\ held' = held \cup {r}
    /\ UNCHANGED otherLog

\* The ingestion of r returns or raises: its converter is dropped.
IngestionEnds ==
    /\ \E r \in held : held' = held \ {r}
    /\ UNCHANGED <<loggers, handlers, closed_by, last_call, otherLog>>

\* cleanup_session_logger(r) (lines 256-266), also called by
\* reset_workflow (session.py lines 36-41).
CleanupSessionLogger ==
    /\ \E r \in RequestIds :
          /\ IF Registered(loggers, r)
             THEN /\ CleanupLoggers({r}, "cleanup_session_logger")
                  /\ loggers' = Delete(loggers, r)
             ELSE UNCHANGED <<loggers, handlers, closed_by>>
          /\ last_call' = Call("cleanup_session_logger", r, loggers, loggers', FALSE)
    /\ UNCHANGED <<held, otherLog>>

\* cleanup_all_loggers (lines 269-279).
CleanupAllLoggers ==
    /\ CleanupLoggers({loggers[k] : k \in 1..Len(loggers)}, "cleanup_all_loggers")
    /\ loggers' = <<>>
    /\ last_call' = Call("cleanup_all_loggers", 0, loggers, loggers', FALSE)
    /\ UNCHANGED <<held, otherLog>>

LogNext ==
    \/ GetSessionLogger \/ FileConverterInit \/ IngestionEnds
    \/ CleanupSessionLogger \/ CleanupAllLoggers

LogInit ==
    /\ loggers = <<>>
    /\ handlers = [r \in RequestIds |-> FALSE]
    /\ closed_by = [r \in RequestIds |-> "none"]
    /\ held = {}
    /\ last_call = Call("none", 0, <<>>, <<>>, FALSE)

LogIdle == LogInit

(***************************************************************************)
(* Specifications: one component runs, the others stay idle.               *)
(***************************************************************************)
InitFormatter == FmtInit /\ TabIdle /\ ImgIdle /\ ConvIdle /\ UrlIdle /\ NameIdle /\ ParserIdle /\ CleanerIdle /\ PptxIdle /\ WizIdle /\ LogIdle
InitTables == TabInit /\ FmtIdle /\ ImgIdle /\ ConvIdle /\ UrlIdle /\ NameIdle /\ ParserIdle /\ CleanerIdle /\ PptxIdle /\ WizIdle /\ LogIdle
InitImages == ImgInit /\ FmtIdle /\ TabIdle /\ ConvIdle /\ UrlIdle /\ NameIdle /\ ParserIdle /\ CleanerIdle /\ PptxIdle /\ WizIdle /\ LogIdle
InitConverter == ConvInit /\ FmtIdle /\ TabIdle /\ ImgIdle /\ UrlIdle /\ NameIdle /\ ParserIdle /\ CleanerIdle /\ PptxIdle /\ WizIdle /\ LogIdle
InitUrl == UrlInit /\ FmtIdle /\ TabIdle /\ ImgIdle /\ ConvIdle /\ NameIdle /\ ParserIdle /\ CleanerIdle /\ PptxIdle /\ WizIdle /\ LogIdle
InitNames == NameInit /\ FmtIdle /\ TabIdle /\ ImgIdle /\ ConvIdle /\ UrlIdle /\ ParserIdle /\ CleanerIdle /\ PptxIdle /\ WizIdle /\ LogIdle

InitParser ==
    ParserInit /\ FmtIdle /\ TabIdle /\ ImgIdle /\ ConvIdle /\ UrlIdle /\ NameIdle /\ CleanerIdle /\ PptxIdle /\ WizIdle /\ LogIdle

ConvNext == CallConvertToPdf \/ CallDetectFileType \/ CallInitiateParser

SpecFormatter == InitFormatter /\ [][FmtNext]_vars

SpecTables == InitTables /\ [][ExtractTables]_vars

SpecImages == InitImages /\ [][ExtractImages]_vars

SpecConverter == InitConverter /\ [][ConvNext]_vars

SpecUrl == InitUrl /\ [][UrlNext]_vars

SpecNames == InitNames /\ [][NameNext]_vars

SpecParser == InitParser /\ [][ParserNext]_vars

InitCleaner ==
    CleanerInit /\ FmtIdle /\ TabIdle /\ ImgIdle /\ ConvIdle /\ UrlIdle /\ NameIdle
        /\ ParserIdle /\ PptxIdle /\ WizIdle /\ LogIdle

SpecCleaner == InitCleaner /\ [][CleanerNext]_vars

InitPptx ==
    PptxInit /\ FmtIdle /\ TabIdle /\ ImgIdle /\ ConvIdle /\ UrlIdle /\ NameIdle
        /\ ParserIdle /\ CleanerIdle /\ WizIdle /\ LogIdle

SpecPptx == InitPptx /\ [][ConvertPptxToPdf]_vars

InitWizard ==
    WizInit /\ FmtIdle /\ TabIdle /\ ImgIdle /\ ConvIdle /\ UrlIdle /\ NameIdle
        /\ ParserIdle /\ CleanerIdle /\ PptxIdle /\ LogIdle

SpecWizard == InitWizard /\ [][WizNext]_vars

InitLoggers ==
    LogInit /\ FmtIdle /\ TabIdle /\ ImgIdle /\ ConvIdle /\ UrlIdle /\ NameIdle
        /\ ParserIdle /\ CleanerIdle /\ PptxIdle /\ WizIdle

SpecLoggers == InitLoggers /\ [][LogNext]_vars

(***************************************************************************)
(* Claims.                                                                 *)
(***************************************************************************)
\* The sequence holds exactly one entry per page of d, numbered 1..Len(d).
OnePerPage(sc, d) ==
    /\ Len(sc) = Len(d)
    /\ \A i \in 1..Len(sc) : sc[i].page = i

\* C1: whenever structured content has been built (any number of build
\* calls), it has exactly one entry per page of the document, with page
\* numbers 1..N ascending, also for empty pages and failed text reads.
C1_OnePageContentPerPage ==
    builds >= 1 => OnePerPage(structured_content, doc)


\* The table ids emitted by the last call.
EmittedIds == {extracted_tables[j].table_id : j \in 1..Len(extracted_tables)}

\* C2: after a call in which detection did not fail, table i is emitted iff
\* its cleaned grid has >= 2 rows and >= 2 columns and (content ratio > 0.1
\* or accuracy > 40), whatever the other tables of the document are.
C2_AcceptanceIsPure ==
    (table_calls >= 1 /\ read_ok) =>
        /\ \A i \in 1..Len(tables) :
              (i - 1 \in EmittedIds) <=>
                  /\ tables[i].shape[1] >= 2
                  /\ tables[i].shape[2] >= 2
                  /\ (10 * tables[i].filled > tables[i].shape[1] * tables[i].shape[2]
                      \/ tables[i].accuracy > 40)
        /\ \A j \in 1..Len(extracted_tables) : \A k \in 1..Len(extracted_tables) :
              j < k => extracted_tables[j].table_id < extracted_tables[k].table_id

\* A sparse but confidently detected table (ratio 0.05, accuracy 41) is
\* emitted next to a rejected sparse, uncertain one (ratio 0.05, accuracy 10).
C2_Witness ==
    /\ table_calls >= 1
    /\ read_ok
    /\ Len(tables) = 2
    /\ tables[1] = [accuracy |-> 10, shape |-> <<2, 20>>, filled |-> 2,
                    has_page |-> TRUE, page |-> 1]
    /\ tables[2] = [accuracy |-> 41, shape |-> <<2, 20>>, filled |-> 2,
                    has_page |-> TRUE, page |-> 1]
    /\ EmittedIds = {1}

\* The positions <<page, index>> of the images of img_doc.
ImagePositions ==
    {<<p, i>> : p \in 1..MaxImgPages + 1, i \in 1..MaxImgs + 1} \cap
    UNION {{<<p, i>> : i \in 1..Len(img_doc[p].imgs)} : p \in 1..Len(img_doc)}

\* The page loop reaches page p: no earlier page load left the loop.
PageReached(p) == \A q \in 1..p : img_doc[q].load # "ValueError"

\* The image at pos is retained: its page was loaded, it decodes, it is not
\* below the minimum size and its file was written.
Retained(pos) ==
    LET im == img_doc[pos[1]].imgs[pos[2]]
    IN  /\ PageReached(pos[1])
        /\ img_doc[pos[1]].load = "ok"
        /\ im.pix = "ok" /\ ~TooSmallImage(im.width, im.height) /\ im.write = "ok"

\* The image at pos failed while being processed.
Failed(pos) ==
    LET im == img_doc[pos[1]].imgs[pos[2]]
    IN  im.pix # "ok" \/ (~TooSmallImage(im.width, im.height) /\ im.write # "ok")

RecordedPositions == {<<images_data[j].page, images_data[j].index>> : j \in 1..Len(images_data)}

\* The number of describer calls of kind by logged for the image at pos.
Calls(pos, by) ==
    Cardinality({j \in 1..Len(describe_log) :
                    /\ describe_log[j].page = pos[1]
                    /\ describe_log[j].index = pos[2]
                    /\ describe_log[j].by = by})

Sentinels == {NotAvailable, FileNotFound, ErrorGenerating}

\* C5: with a describer at hand, every retained image gets exactly one
\* path-based describe call and at most one bytes-based call, the latter
\* exactly when the path-based result is an error or unavailable sentinel.
C5_BytesRetryExactlyOnSentinel ==
    (img_result # "none" /\ describe_images /\ image_describer # "None") =>
        \A pos \in ImagePositions :
            Retained(pos) =>
                /\ Calls(pos, "path") = 1
                /\ Calls(pos, "bytes") <= 1
                /\ (Calls(pos, "bytes") = 1) <=>
                      (DescribeImage(image_describer, img_doc[pos[1]].imgs[pos[2]])
                          \in Sentinels)

\* C6: when describing is disabled, or the describer is missing or failed
\* its setup, no describe call is made and every record's description is
\* the 'No description available' sentinel.
C6_NoCallsWhenUnavailable ==
    (img_result # "none"
        /\ (~describe_images \/ image_describer \in {"None", "unavailable"})) =>
        /\ describe_log = <<>>
        /\ \A j \in 1..Len(images_data) : images_data[j].description = NoDescription

\* The input meets one of the fatal conditions: the source does not exist,
\* its format is unsupported after the MIME fallback, or the canonical
\* document cannot be opened.
SourceNotFound == ~IsValidUrl(conv_input) /\ ~conv_input.exists
Unsupported ==
    /\ ~IsValidUrl(conv_input) /\ conv_input.exists
    /\ DetectFileType(conv_input) = Returned("unknown")
CannotOpenCanonical ==
    /\ ConvertToPdf(conv_input).result.kind = "returned"
    /\ conv_input.pdf = "FileDataError"

\* C3: under each fatal condition initiate_parser returns no document
\* string and raises the typed error 'Failed to parse file'.
C3_FatalConditionsAbort ==
    (conv_op = "initiate_parser"
        /\ (SourceNotFound \/ Unsupported \/ CannotOpenCanonical)) =>
        conv_result = Raised("RuntimeError", "Failed to parse file")

\* The typed conversion errors of the converters.
ConversionErrors ==
    {k \o " conversion error" : k \in {"Image", "HTML", "Markdown", "PPTX"}}
        \cup {"URL to PDF conversion error"}

\* The underlying conversion of the converter that was called failed.
ConversionFailed ==
    \/ /\ IsValidUrl(conv_input)
       /\ conv_input.url_result.msg
              \in {"URL to PDF conversion error", "PDF not found after subprocess"}
    \/ /\ ~IsValidUrl(conv_input)
       /\ DetectFileType(conv_input).kind = "returned"
       /\ ConverterOf(DetectFileType(conv_input).value) # "none"
       /\ conv_input.lib # "ok"

\* C10: a failure of the underlying conversion reaches the caller of
\* convert_to_pdf as the converter's typed conversion error, never as the
\* library's own exception.
C10_FailuresAreTypedErrors ==
    (conv_op = "convert_to_pdf" /\ ConversionFailed) =>
        /\ conv_result.kind = "raised"
        /\ conv_result.msg \in ConversionErrors

\* The render has ended: the url2pdf.py process returned or exited.
RenderOver == child_pc \in {"returned", "exited"}

\* C8: on every exit path of the render the web view, its page, the timer
\* and the application instance have been released when the call ends.
C8_RenderReleasesOnEveryExit ==
    RenderOver =>
        /\ web_view = "released" /\ web_page = "released"
        /\ timer = "released" /\ app = "released"

\* url_trace is an initial part of validation, probe, render in this order.
InOrder ==
    \E n \in 0..3 : url_trace = SubSeq(<<"is_valid_url", "requests.get", "subprocess.run">>, 1, n)

RenderStarted == \E j \in 1..Len(url_trace) : url_trace[j] = "subprocess.run"

\* C9: validation, one probe and the render happen in this order; the
\* render is never started after a failed validation, a probe that raised
\* or a status >= 400, and the matching error is raised instead.
C9_ProbeBeforeRender ==
    /\ InOrder
    /\ RenderStarted => (url_valid /\ probe = "answered" /\ status < 400)
    /\ (url_pc # "start" /\ ~url_valid) => url_result = Raised("ValueError", "Invalid URL")
    /\ probe = "RequestException" => url_result = Raised("Exception", "Connection error")
    /\ (probe = "answered" /\ status >= 400) =>
          url_result = Raised("Exception", "Unavailable page")

\* The probe answered 404: 'Unavailable page' was raised and no render ran.
C9_Witness ==
    /\ probe = "answered" /\ status = 404
    /\ url_result = Raised("Exception", "Unavailable page")
    /\ ~RenderStarted /\ child_pc = "none"

\* C7: no two conversions sharing the output directory and the base name
\* obtain the same output path from _generate_unique_filename.
C7_OutputPathsDistinct ==
    \A c \in Conversions : \A d \in Conversions :
        (c # d /\ name_pc[c] # "start" /\ name_pc[d] # "start") =>
            name_path[c] # name_path[d]

\* A convert_ method was called by convert_to_pdf.
ConverterCalled ==
    \/ IsValidUrl(conv_input)
    \/ /\ DetectFileType(conv_input).kind = "returned"
       /\ ConverterOf(DetectFileType(conv_input).value) # "none"

\* C11: a path returned by a convert_ method names a completely written
\* document, and when a convert_ method raises no file is left at the output
\* path it chose.
C11_NoPartialFile ==
    (conv_op = "convert_to_pdf" /\ ConverterCalled) =>
        /\ conv_result.kind = "returned" => conv_file = "complete"
        /\ conv_result.kind = "raised" => conv_file = "absent"

\* The calls of conv_trace that look at the local path.
LocalChecks == {j \in 1..Len(conv_trace) : conv_trace[j] = "detect_file_type"}

\* C12: when the input has a non-empty scheme and host, convert_to_pdf
\* invokes the URL converter and gives back what it gives, and neither the
\* existence check nor extension/MIME detection runs, also when a local
\* file of that name exists.
C12_UrlTakesPrecedence ==
    (conv_op = "convert_to_pdf" /\ conv_input.scheme # "" /\ conv_input.netloc # "") =>
        /\ conv_trace = <<"is_valid_url", "convert_url_to_pdf">>
        /\ LocalChecks = {}
        /\ conv_result = conv_input.url_result

\* A well-formed URL whose name is also that of an existing local file went
\* to the URL converter.
C12_Witness ==
    /\ conv_op = "convert_to_pdf"
    /\ conv_input.scheme = "http" /\ conv_input.netloc = "host" /\ conv_input.exists
    /\ conv_trace = <<"is_valid_url", "convert_url_to_pdf">>
    /\ conv_result = Returned("output_path")

\* The extension lists of the claim, by kind, for lower-cased extensions.
ListedKind(ext) ==
    IF ext \in {".png"} THEN "images"
    ELSE IF ext \in {".html"} THEN "web"
    ELSE IF ext \in {".pptx"} THEN "presentations"
    ELSE IF ext \in {".md"} THEN "markdown"
    ELSE IF ext \in {".pdf"} THEN "pdf"
    ELSE "none"

\* The extension in lower case, spelled out for the extensions that occur.
LowerCased ==
    IF conv_input.ext = ".PNG" THEN ".png"
    ELSE IF conv_input.ext = ".HTML" THEN ".html"
    ELSE conv_input.ext

ConverterCalls ==
    {conv_trace[j] : j \in 1..Len(conv_trace)}
        \ {"is_valid_url", "detect_file_type", "PdfParser", "initiate", "cleanup"}

\* The converter the claim names for a detected kind.
MatchingConverter(kind) ==
    IF kind = "images" THEN "Image converter"
    ELSE IF kind = "web" THEN "HTML converter"
    ELSE IF kind = "markdown" THEN "Markdown converter"
    ELSE "PPTX converter"

\* C14: for a detected kind images, web, markdown or presentations,
\* convert_to_pdf invokes exactly the matching converter and returns its
\* path; for kind pdf it invokes no converter, writes no file and returns
\* the input path.
C14_DispatchMatchesKind ==
    (conv_op = "convert_to_pdf" /\ ~(conv_input.scheme # "" /\ conv_input.netloc # "")
        /\ DetectFileType(conv_input).kind = "returned") =>
        LET kind == DetectFileType(conv_input).value
        IN  /\ kind = "pdf" =>
                  /\ ConverterCalls = {}
                  /\ conv_file = "absent"
                  /\ conv_result = Returned("file_path")
            /\ kind \in {"images", "web", "markdown", "presentations"} =>
                  /\ ConverterCalls = {MatchingConverter(kind)}
                  /\ conv_input.lib = "ok" =>
                        (conv_result = Returned("output_path") /\ conv_file = "complete")

\* An HTML file was converted by the HTML converter.
C14_Witness ==
    /\ conv_op = "convert_to_pdf"
    /\ conv_input.ext = ".html" /\ conv_input.exists /\ conv_input.scheme = ""
    /\ ConverterCalls = {"HTML converter"}
    /\ conv_result = Returned("output_path")

\* The keys of the record extract_metadata returned.
MetadataKeys == {kv[1] : kv \in metadata}

\* C15: when os.stat fails, extract_metadata does not raise, does not open
\* the document and returns a record whose only key is 'error'.
C15_StatFailureOnlyError ==
    ("extract_metadata" \in parser_calls /\ parser_env.stat = "OSError") =>
        /\ parser_exc = "none"
        /\ MetadataKeys = {"error"}
        /\ \A j \in 1..Len(parser_trace) :
              parser_trace[j] = "os.stat" =>
                  (j = Len(parser_trace) \/ parser_trace[j + 1] # "fitz.open")

C15_Witness ==
    /\ "extract_metadata" \in parser_calls
    /\ parser_env.stat = "OSError"
    /\ metadata = {<<"error", "Failed to get file stats">>}

\* Reading the document-level metadata fails: the document does not open
\* or hands out no metadata.
DocMetadataFails == parser_env.open # "ok" \/ parser_env.docmeta = "None"

C17_ExtractTextNeverRaises ==
    "extract_text" \in parser_calls =>
        /\ parser_exc = "none"
        /\ parser_env.miner # "text" => text = ""
        /\ parser_env.miner = "text" => text = "T"

C17_Witness ==
    /\ parser_calls = {"extract_metadata", "extract_text"}
    /\ parser_env.miner = "PDFSyntaxError"
    /\ text = ""
    /\ "error" \in MetadataKeys

\* The page blocks of llm_content, in order.
PageBlocks == SelectSeq(llm_content, LAMBDA b : b.block = "STRONA")

\* Cleaning the text of entry k of structured_content fails.
CleaningFails(k) ==
    /\ ~IsBlank(structured_content[k].text)
    /\ CleanText(structured_content[k].text).exc # "none"

\* C18: when the cleaner raises on a page's text, get_content_for_llm does
\* not raise, keeps one block per page, and that page's block holds the
\* page's raw text.
C18_CleaningFailureKeepsRawText ==
    (llm_result # "none" /\ \E k \in 1..Len(structured_content) : CleaningFails(k)) =>
        /\ llm_result = "returned"
        /\ Len(PageBlocks) = Len(structured_content)
        /\ \A k \in 1..Len(structured_content) :
              CleaningFails(k) =>
                  /\ PageBlocks[k].page = structured_content[k].page
                  /\ PageBlocks[k].text.text = structured_content[k].text

\* C19: for a document with structured content, get_content_for_llm gives
\* the metadata header (exactly when metadata is present) followed by one
\* block per PageContent in ascending page order; a block has a text
\* section iff the page's text is not blank, an images section iff the page
\* has an image, a tables section iff a table has that page number.
C19_DocumentStringLayout ==
    (llm_result # "none" /\ structured_content # <<>>) =>
        /\ llm_result = "returned"
        /\ fmt_metadata => (llm_content # <<>> /\ llm_content[1] = MetadataBlock)
        /\ Len(llm_content) = Len(PageBlocks) + (IF fmt_metadata THEN 1 ELSE 0)
        /\ Len(PageBlocks) = Len(structured_content)
        /\ \A j \in 1..Len(PageBlocks) : \A k \in 1..Len(PageBlocks) :
              j < k => PageBlocks[j].page < PageBlocks[k].page
        /\ \A k \in 1..Len(PageBlocks) :
              /\ PageBlocks[k].page = structured_content[k].page
              /\ (PageBlocks[k].text.section # "none") <=> ~IsBlank(structured_content[k].text)
              /\ (PageBlocks[k].images # <<>>) <=> (structured_content[k].images # <<>>)
              /\ (PageBlocks[k].tables # <<>>) <=>
                    (\E j \in 1..Len(fmt_tables) :
                        fmt_tables[j].page = structured_content[k].page)

\* C20: every table record and every image record produced for a document
\* carries a page number that is an integer between 1 and the document's
\* page count.
C20_RecordPagesInRange ==
    /\ \A j \in 1..Len(extracted_tables) :
          /\ extracted_tables[j].page.is_int
          /\ extracted_tables[j].page.value \in 1..MaxTabPages
    /\ \A j \in 1..Len(images_data) : images_data[j].page \in 1..Len(img_doc)

\* The positions of the embedded images narrower or lower than 50 pixels.
SmallPositions ==
    {pos \in ImagePositions :
        LET im == img_doc[pos[1]].imgs[pos[2]]
        IN  im.pix = "ok" /\ (im.width < 50 \/ im.height < 50)}

\* C21: no record returned by extract_images has a width or a height below
\* 50; an embedded image with either side below 50 pixels gets no record, no
\* image file and no describe call.
C21_SmallImagesDropped ==
    /\ \A j \in 1..Len(images_data) :
          images_data[j].width >= 50 /\ images_data[j].height >= 50
    /\ \A pos \in SmallPositions :
          /\ pos \notin RecordedPositions
          /\ pos \notin image_files
          /\ Calls(pos, "path") = 0 /\ Calls(pos, "bytes") = 0

\* A document with an image below the size limit on a processed page has
\* been extracted with a describer at hand, and another image was recorded.
C21_Witness ==
    /\ img_result = "returned"
    /\ describe_images /\ image_describer = "available"
    /\ \E pos \in SmallPositions : PageReached(pos[1]) /\ img_doc[pos[1]].load = "ok"
    /\ images_data # <<>>

\* C22: clean_text is idempotent: cleaning the result of clean_text again
\* returns the same text.
C22_CleanTextIdempotent ==
    (Len(cleaner_ops) = 2 /\ cleaner_ops[1] = "clean_text" /\ cleaner_ops[2] = "clean_text")
        => cleaner_values[3] = cleaner_values[2]

RECURSIVE CollapseIdenticalRuns(_)
\* t with every maximal run of three or more copies of one special
\* character replaced by two copies of it.
CollapseIdenticalRuns(t) ==
    IF t = <<>> THEN <<>>
    ELSE LET n == RunLength(t, {Head(t)})
         IN  IF Head(t) \in SpecialChars /\ n >= 3
             THEN <<Head(t), Head(t)>> \o CollapseIdenticalRuns(Drop(t, n))
             ELSE SubSeq(t, 1, n) \o CollapseIdenticalRuns(Drop(t, n))

\* t holds three copies of one special character in a row.
HasLongRun(t) ==
    \E i \in 1..(Len(t) - 2) :
        t[i] \in SpecialChars /\ t[i + 1] = t[i] /\ t[i + 2] = t[i]

\* C23: the final pass replaces every maximal run of 3 or more identical
\* special characters by exactly 2 of that character, leaves runs of 1 or 2
\* unchanged, and leaves no run of 3 or more of such a character in its result.
C23_RepeatedRunsCollapsed ==
    \A k \in 1..Len(cleaner_ops) :
        /\ cleaner_ops[k] = "remove_repeated_chars" =>
              cleaner_values[k + 1] = CollapseIdenticalRuns(cleaner_values[k])
        /\ cleaner_ops[k] \in {"remove_repeated_chars", "final_cleanup"} =>
              ~HasLongRun(cleaner_values[k + 1])

\* The strings drawn, page after page, each with the page it is on.
RECURSIVE DrawnFrom(_)
DrawnFrom(q) ==
    IF q > Len(pdf_pages) THEN <<>>
    ELSE [k \in 1..Len(pdf_pages[q]) |->
              [page |-> q, slide |-> pdf_pages[q][k].slide, kind |-> pdf_pages[q][k].kind,
               shape |-> pdf_pages[q][k].shape, line |-> pdf_pages[q][k].line]]
         \o DrawnFrom(q + 1)

RECURSIVE ExpectedLines(_, _, _)
\* The title of slide i and the lines of its shapes with text, in order.
ExpectedLines(i, shapes, j) ==
    IF j > Len(shapes) THEN <<>>
    ELSE (IF shapes[j].has_text /\ shapes[j].lines > 0
          THEN [k \in 1..shapes[j].lines |->
                    [slide |-> i, kind |-> "line", shape |-> j, line |-> k]]
          ELSE <<>>)
         \o ExpectedLines(i, shapes, j + 1)

RECURSIVE ExpectedFrom(_)
ExpectedFrom(i) ==
    IF i > Len(slides) THEN <<>>
    ELSE <<[slide |-> i, kind |-> "title", shape |-> 0, line |-> 0]>>
         \o ExpectedLines(i, slides[i], 1) \o ExpectedFrom(i + 1)

\* The pages that do not begin with a slide's title.
OverflowPages == {q \in 1..Len(pdf_pages) : pdf_pages[q][1].kind # "title"}

\* C24: slides appear in source order, every slide starts on a new page, no
\* page carries text of two slides, lines that find no vertical space left
\* continue on further pages of the same slide, and with S >= 1 slides the
\* page count is S plus the number of overflow pages.
C24_SlidesKeepPageBoundaries ==
    (pptx_result = "returned" /\ Len(slides) >= 1) =>
        LET drawn == DrawnFrom(1)
        IN  /\ [k \in 1..Len(drawn) |-> [slide |-> drawn[k].slide, kind |-> drawn[k].kind,
                                        shape |-> drawn[k].shape, line |-> drawn[k].line]]
                  = ExpectedFrom(1)
            /\ \A q \in 1..Len(pdf_pages) :
                  /\ pdf_pages[q] # <<>>
                  /\ \A k \in 1..Len(pdf_pages[q]) :
                        /\ pdf_pages[q][k].slide = pdf_pages[q][1].slide
                        /\ pdf_pages[q][k].kind = "title" => k = 1
                        /\ pdf_pages[q][k].y >= 40
                        /\ k > 1 => pdf_pages[q][k].y < pdf_pages[q][k - 1].y
            /\ Len(pdf_pages) = Len(slides) + Cardinality(OverflowPages)

\* A presentation of two slides whose first slide needed a second page.
C24_Witness ==
    /\ pptx_result = "returned"
    /\ Len(slides) = 2
    /\ Len(pdf_pages) = 3
    /\ pdf_pages[2][1].kind = "line" /\ pdf_pages[2][1].slide = 1

\* extract_metadata recorded a failure of either kind.
MetadataFailed == \E e \in metadata : e[1] = "error"

\* C25: in parse_all a metadata failure of either kind does not stop the
\* run: text, image and table extraction and structured-content creation
\* are still attempted, and their results are returned together with the
\* metadata record carrying its 'error' entry.
C25_MetadataFailureNotFatal ==
    ("parse_all" \in parser_calls /\ MetadataFailed) =>
        /\ {ParseSteps[k] : k \in 1..5} \subseteq parser_calls
        /\ parse_result.state = "dict"
        /\ parse_result.metadata = metadata
        /\ parse_result.text # "none" /\ parse_result.images # "none"
        /\ parse_result.tables # "none" /\ parse_result.structured_content # "none"

\* C26: once step 1 has handled the process button, the state is at step 2
\* with llm_content stored and file_processed True iff ingestion returned
\* non-empty content and the safety check passed; in every other outcome
\* step, llm_content and file_processed are unchanged.
C26_Step1MovesOnlyOnSafeContent ==
    last_action.handler = "step1" =>
        IF last_action.content \notin {"None", ""} /\ last_action.verdict = "True"
        THEN /\ session.step = 2
             /\ session.llm_content = last_action.content
             /\ session.file_processed
        ELSE /\ session.step = last_action.step
             /\ session.llm_content = last_action.llm_content
             /\ session.file_processed = last_action.file_processed

\* Step 1 has stored safe content and moved to step 2.
C26_Witness ==
    /\ last_action.handler = "step1"
    /\ last_action.verdict = "True" /\ ~last_action.file_processed
    /\ session.step = 2 /\ session.llm_content = "safe text" /\ session.file_processed

\* The handlers of the action buttons of steps 1, 2, 3, 5 and of the auto
\* pipeline.
StepHandlers == {"step1", "step2", "step3", "step5", "auto"}

\* C27: whenever a step's render function has handled its action button,
\* the session flag 'processing' is False, whether the action succeeded or
\* failed, so the buttons disabled while processing are enabled again.
C27_ProcessingClearedAfterAction ==
    last_action.handler \in StepHandlers => ~session.processing

\* C28: in both modes plan generation is never invoked on content for which
\* check_content_safety has not returned True.
C28_PlanOnlyOnCheckedContent ==
    \A call \in plan_calls : call.content \in safety_passed

\* C29: after any interleaving of get_session_logger, cleanup_session_logger
\* and cleanup_all_loggers calls the registry holds at most the maximal
\* number of entries (50 in the source); when a new request id arrives
\* while it is full, exactly one entry, the one registered earliest, is
\* evicted.
C29_RegistryBounded ==
    /\ Len(loggers) <= max_loggers
    /\ last_call.op = "get_session_logger" =>
          IF last_call.size = max_loggers /\ ~last_call.known
          THEN last_call.removed = {last_call.oldest}
          ELSE last_call.removed = {}

\* A new request id arrived at a full registry and took the place of the
\* entry registered first.
C29_Witness ==
    /\ last_call.op = "get_session_logger" /\ last_call.created
    /\ last_call.size = max_loggers /\ ~last_call.known
    /\ last_call.removed = {last_call.oldest}
    /\ last_call.newest /\ Len(loggers) = max_loggers

\* C30: a session logger keeps its handlers until cleanup_session_logger
\* for its id (also through a workflow reset) or cleanup_all_loggers is
\* called; get_session_logger calls for other ids never close the handlers
\* of a logger that a running ingestion still holds.
C30_HandlersKeptWhileHeld ==
    \A r \in RequestIds :
        /\ closed_by[r] \in {"none", "cleanup_session_logger", "cleanup_all_loggers"}
        /\ r \in held => closed_by[r] # "get_session_logger"

====
